---- MODULE Spec2Model ----
(***************************************************************************)
(* Model of the portfolio backend's versioned key-value store accessor     *)
(* (server/config/portfolio-data.js over the portfolio_data table) and of  *)
(* its in-memory cache with the resilient refresh manager                  *)
(* (config/portfolio-cache.js).                                            *)
(*                                                                         *)
(* Keys are modelled as tuples: 'skill:7' is <<"skill", 7>>, 'profile' is  *)
(* <<"profile">>, 'project_tech:1:go' is <<"project_tech", 1, "go">>.      *)
(* Values are JSON documents, modelled as records.  The created_at /       *)
(* updated_at stamps inside the documents are left out: no branch of the   *)
(* code depends on them (SpecSkill keeps created_at, which updateSkill     *)
(* carries over).  The table's created_at column (the ORDER BY of the      *)
(* bulk reads) is the position of the row in the sequence rows.            *)
(***************************************************************************)
EXTENDS Integers, Sequences, FiniteSets, TLC

(***************************************************************************)
(* Bounds of the model.                                                    *)
(***************************************************************************)
MaxRows == 3          \* Spec: writers stop once the table holds this many rows
MaxSetRows == 4       \* SpecSet: the same, for the setPortfolioItem-only runs
MaxAccRows == 3       \* SpecAccessor: the same, for the core accessor's writers
MaxExpRows == 4       \* SpecExp: the same, for the experience operations
MaxListLen == 2       \* longest achievement list / reorder list
MaxRuns == 2          \* executions of refreshCacheWithRetry in flight at once
MaxRefreshRows == 1   \* SpecRefresh: writers stop once the table holds this many rows
MaxServerRows == 2    \* SpecServer: the same, for the write routes
MaxProjRows == 4      \* SpecProj: the same, for the project operations
MaxFaultRows == 3     \* SpecFault: the same, for the compound writes
MaxFault == 2         \* statements of an operation that run before the one that throws
MaxTx == 2            \* transactions in progress at once
MaxRaceRows == 3      \* SpecRace: calls start while the table holds fewer rows
MaxReorderRows == 4   \* SpecReorder: the same, for the concurrent reorders
MaxLostRows == 3      \* SpecLost: the same, for an update racing a reorder
MaxAccessRows == 2    \* SpecAccess: writers stop once the table holds this many rows
MaxSkillRows == 4     \* SpecSkill: the same, for the skill operations
MaxShapeRows == 3     \* SpecShape: most records in a table handed to the shaping
MaxLoopRows == 2      \* SpecLoop: writers stop once the table holds this many rows

(***************************************************************************)
(* Inputs of the store operations.                                         *)
(***************************************************************************)
SkillIds == {1}
ExpIds == {1}
AchIds == {1}
ProjIds == {1}
Techs == {"go", "pg"}
Names == {"a", "b"}
NoId == 0             \* a list entry without id (falsy in `x.id || uuid()`)
\* ids supplied by callers are positive; the ids drawn by uuid() are -1, -2, ...

SeqsUpTo(S, n) == UNION {[1 .. m -> S] : m \in 0 .. n}

VARIABLES
    rows,             \* the portfolio_data table, in insertion order
    result,           \* outcome of the most recent call: "ok" or the error thrown
    enabled,          \* CACHE_CONFIG.ENABLED
    cache,            \* the NodeCache instance: its entries in insertion order
    isRefreshing,     \* CacheRefreshManager.isRefreshing
    refreshTimer,     \* CacheRefreshManager.refreshTimer and the intervals it has armed
    runs,             \* the executions of refreshCacheWithRetry in flight
    served,           \* the response of getCachedPortfolioData sent by the last step
    txs,              \* the transactions in progress, one per pool client
    db                \* the call of query() or transaction() in progress

storeVars == <<rows, result>>
cacheVars == <<enabled, cache, isRefreshing, refreshTimer, runs, served>>
vars == <<rows, result, enabled, cache, isRefreshing, refreshTimer, runs, served, txs, db>>

(***************************************************************************)
(* Keys and documents.                                                     *)
(***************************************************************************)
ProfileKey == <<"profile">>
SkillKey(id) == <<"skill", id>>
ExperienceKey(id) == <<"experience", id>>
AchievementKey(id) == <<"achievement", id>>
ProjectKey(id) == <<"project", id>>
TechKey(pid, tech) == <<"project_tech", pid, tech>>

Null == [null |-> TRUE]

\* { ...a, ...b }
Merge(a, b) ==
    [f \in (DOMAIN a) \cup (DOMAIN b) |-> IF f \in DOMAIN b THEN b[f] ELSE a[f]]

RECURSIVE SeqMax(_)
SeqMax(s) ==
    IF s = <<>> THEN 0
    ELSE LET m == SeqMax(Tail(s)) IN IF Head(s) > m THEN Head(s) ELSE m

(***************************************************************************)
(* SQL statements over a table r (a sequence of rows).                     *)
(***************************************************************************)
RowsOf(r, k) == SelectSeq(r, LAMBDA x : x.key = k)

ActiveRowsOf(r, k) == SelectSeq(r, LAMBDA x : x.key = k /\ x.is_active)

\* variant: the active row of the key is deleted from the table
DeactivateKeyByDelete(r, k) == SelectSeq(r, LAMBDA x : ~(x.key = k /\ x.is_active))

\* UPDATE portfolio_data SET is_active = FALSE WHERE key = $1 AND is_active = TRUE
DeactivateKey(r, k) ==
    [i \in DOMAIN r |->
        IF r[i].key = k /\ r[i].is_active
        THEN [r[i] EXCEPT !.is_active = FALSE] ELSE r[i]]

\* UPDATE ... SET is_active = FALSE WHERE type = $t AND value->>$field = $id AND is_active
DeactivateChildren(r, t, field, id) ==
    [i \in DOMAIN r |->
        IF r[i].type = t /\ field \in DOMAIN r[i].value /\ r[i].value[field] = id
           /\ r[i].is_active
        THEN [r[i] EXCEPT !.is_active = FALSE] ELSE r[i]]

\* variant: the version query restricted to the active rows
NextVersionAmongActive(r, k) ==
    SeqMax([i \in DOMAIN ActiveRowsOf(r, k) |-> ActiveRowsOf(r, k)[i].version]) + 1

\* SELECT COALESCE(MAX(version), 0) + 1 FROM portfolio_data WHERE key = $1
NextVersion(r, k) ==
    SeqMax([i \in DOMAIN RowsOf(r, k) |-> RowsOf(r, k)[i].version]) + 1

\* variant: the table without its partial unique index
UniqueActiveUnchecked(r) == TRUE

\* CREATE UNIQUE INDEX idx_portfolio_data_key_active ON portfolio_data(key)
\*   WHERE is_active = TRUE
UniqueActiveOK(r) ==
    \A i, j \in DOMAIN r :
        (r[i].key = r[j].key /\ r[i].is_active /\ r[j].is_active) => i = j

NewRow(k, t, v, ver) ==
    [key |-> k, type |-> t, value |-> v, version |-> ver, is_active |-> TRUE]

(***************************************************************************)
(* A transaction in progress: the rows its statements see, and whether a   *)
(* statement has failed (the transaction is then rolled back).             *)
(* A query may throw (connection lost, statement timeout): `faults` says    *)
(* whether one of the statements of this transaction will, `left` how many *)
(* statements run before it.                                               *)
(***************************************************************************)
Begin(r) == [rows |-> r, ok |-> TRUE, err |-> "ok", faults |-> FALSE, left |-> 0]

BeginFailing(r, n) == [Begin(r) EXCEPT !.faults = TRUE, !.left = n]

\* the statement at hand throws
Throws(S) == S.faults /\ S.left = 0

\* the statement at hand has run
Ran(S) == [S EXCEPT !.left = IF @ > 0 THEN @ - 1 ELSE 0]

Fail(S, e) == IF S.ok THEN [S EXCEPT !.ok = FALSE, !.err = e] ELSE S

\* INSERT INTO portfolio_data (key, type, value, version, is_active) VALUES (.., TRUE)
StmtInsert(S, k, t, v, ver) ==
    IF ~S.ok THEN S
    ELSE IF Throws(S) THEN Fail(S, "query_error")
    ELSE LET r2 == Append(S.rows, NewRow(k, t, v, ver))
         IN  IF UniqueActiveOK(r2) THEN [Ran(S) EXCEPT !.rows = r2]
             ELSE Fail(S, "unique_violation")

StmtDeactivateKey(S, k) ==
    IF ~S.ok THEN S
    ELSE IF Throws(S) THEN Fail(S, "query_error")
    ELSE [Ran(S) EXCEPT !.rows = DeactivateKey(S.rows, k)]

StmtDeactivateChildren(S, t, field, id) ==
    IF ~S.ok THEN S
    ELSE IF Throws(S) THEN Fail(S, "query_error")
    ELSE [Ran(S) EXCEPT !.rows = DeactivateChildren(S.rows, t, field, id)]

\* variant: what the statements wrote stays, also after a thrown error
CommittedNoRollback(r0, S) == S.rows

\* COMMIT on success, ROLLBACK on a thrown error: the table after transaction()
Committed(r0, S) == IF S.ok THEN S.rows ELSE r0

(***************************************************************************)
(* Core accessor.                                                          *)
(***************************************************************************)
\* all call sites store object literals, so `rows[0]?.value || null` is null
\* exactly when no active row exists
GetPortfolioItem(r, k) ==
    IF ActiveRowsOf(r, k) = <<>> THEN Null ELSE ActiveRowsOf(r, k)[1].value

\* variant: the query without its is_active condition
GetPortfolioItemsByTypeAnyRow(r, t) ==
    LET act == SelectSeq(r, LAMBDA x : x.type = t)
    IN  [i \in DOMAIN act |-> act[i].value]

GetPortfolioItemsByType(r, t) ==
    LET act == SelectSeq(r, LAMBDA x : x.type = t /\ x.is_active)
    IN  [i \in DOMAIN act |-> act[i].value]

RECURSIVE InsertByVersionDesc(_, _)
InsertByVersionDesc(x, s) ==
    IF s = <<>> THEN <<x>>
    ELSE IF x.version > Head(s).version THEN <<x>> \o s
    ELSE <<Head(s)>> \o InsertByVersionDesc(x, Tail(s))

RECURSIVE SortByVersionDesc(_)
SortByVersionDesc(s) ==
    IF s = <<>> THEN <<>> ELSE InsertByVersionDesc(Head(s), SortByVersionDesc(Tail(s)))

\* SELECT * FROM portfolio_data WHERE key = $1 ORDER BY version DESC
GetPortfolioItemHistory(r, k) == SortByVersionDesc(RowsOf(r, k))

\* the transaction body of setPortfolioItem
SetItemTx(S, k, t, v) ==
    LET S1 == StmtDeactivateKey(S, k)
    IN  StmtInsert(S1, k, t, v, NextVersion(S1.rows, k))

(***************************************************************************)
(* Initial state: an empty table; the cache module as constructed at load  *)
(* time, with PORTFOLIO_CACHE_ENABLED unset.                               *)
(***************************************************************************)
maxRetries == 3

baseDelay == 1000     \* milliseconds

Procs == 1 .. MaxRuns

\* what a step sends back on GET /data of the portfolio router
NoResponse == [status |-> "none"]

ErrorResponse == [status |-> "error"]

OkResponse(data) == [status |-> "ok", data |-> data]

Idle ==
    [pc |-> "idle", attempt |-> 0, items |-> <<>>, thenStart |-> FALSE, slept |-> <<>>,
     fresh |-> <<>>]

\* the timer of the manager: set, the field refreshTimer holds a handle (is
\* not null); live, the number of intervals created by setInterval and not
\* cleared since
NoTimer == [set |-> FALSE, live |-> 0]

CacheConstructed ==
    /\ cache = <<>>
    /\ isRefreshing = FALSE
    /\ refreshTimer = NoTimer
    /\ runs = [p \in Procs |-> Idle]
    /\ served = NoResponse

(***************************************************************************)
(* A call of the helpers query() and transaction() of database.js and the  *)
(* recursive calls it has made: stack holds one frame per invocation, the  *)
(* running one on top (rc: retryCount; pc: the await it is at; client: the *)
(* pool client it holds, 0 for none).  releases counts, per client handed  *)
(* out by pool.connect(), the calls of its release(); execs the executions *)
(* of the statement, or of the callback; log the statements issued on the  *)
(* transaction clients (COMMIT when it went through); last the error of    *)
(* the latest failure, otherAt the value of execs when an error that is    *)
(* not connection-class was first raised (-1: none); out how the call      *)
(* ended.  throws: whether release() of a client that has been released    *)
(* throws, which is up to the pool library.                                *)
(***************************************************************************)
NoCallWith(throws) ==
    [fn |-> "none", throws |-> throws, stack |-> <<>>, releases |-> <<>>, execs |-> 0,
     log |-> <<>>, last |-> "", otherAt |-> -1, out |-> [status |-> "pending"]]

NoCall == NoCallWith(TRUE)

(***************************************************************************)
(* A transaction in progress on a pool client, between BEGIN and COMMIT:   *)
(* the call it belongs to, the statement it is at, and what it has written *)
(* and not yet committed (dk: the committed rows it has deactivated, by    *)
(* position; ins: the rows it has inserted).                               *)
(***************************************************************************)
Tx == 1 .. MaxTx

TxIdle ==
    [pc |-> "idle", op |-> "none", type |-> "", lst |-> <<>>, key |-> <<>>,
     lst0 |-> <<>>, value |-> Null, ver |-> 0, targets |-> {}, dk |-> {},
     ins |-> <<>>, raced |-> FALSE]

Init ==
    /\ rows = <<>>
    /\ result = "ok"
    /\ enabled = FALSE
    /\ CacheConstructed
    /\ txs = [t \in Tx |-> TxIdle]
    /\ db = NoCall

(***************************************************************************)
(* setPortfolioItem(key, type, value), as called by setProfile,            *)
(* createSkill, createExperience and createAchievement.                    *)
(***************************************************************************)
ProfileDocs == {[name |-> n] : n \in Names}
SkillDocs == {[id |-> i, name |-> "a", sort_order |-> 0] : i \in SkillIds}
ExperienceDocs(ids) == {[id |-> i, title |-> "a", sort_order |-> 0] : i \in ids}
AchievementDocs(ids, aids) ==
    {[id |-> i, experience_id |-> e, description |-> "a", sort_order |-> 0] :
        i \in aids, e \in ids}

ExperienceCalls(ids, aids) ==
    {<<ExperienceKey(d.id), "experience", d>> : d \in ExperienceDocs(ids)}
    \cup {<<AchievementKey(d.id), "achievement", d>> : d \in AchievementDocs(ids, aids)}

SetCalls ==
    {<<ProfileKey, "profile", d>> : d \in ProfileDocs}
    \cup {<<SkillKey(d.id), "skill", d>> : d \in SkillDocs}
    \cup ExperienceCalls(ExpIds, AchIds)

Keys ==
    {ProfileKey} \cup {SkillKey(i) : i \in SkillIds}
    \cup {ExperienceKey(i) : i \in ExpIds}
    \cup {AchievementKey(i) : i \in AchIds \cup {-1}}
    \cup {ProjectKey(i) : i \in ProjIds}
    \cup {TechKey(i, t) : i \in ProjIds, t \in Techs}

Versions == 1 .. MaxRows

SetPortfolioItem(k, t, v) ==
    LET S == SetItemTx(Begin(rows), k, t, v)
    IN  /\ rows' = Committed(rows, S)
        /\ result' = S.err

(***************************************************************************)
(* deletePortfolioItem(key): one UPDATE ... RETURNING *.                   *)
(***************************************************************************)
DeletePortfolioItem(k) ==
    /\ rows' = DeactivateKey(rows, k)
    /\ result' = "ok"

(***************************************************************************)
(* rollbackPortfolioItem(key, version).                                    *)
(***************************************************************************)
\* UPDATE portfolio_data SET is_active = TRUE WHERE key = $1 AND version = $2
StmtActivateVersion(S, k, ver) ==
    IF ~S.ok THEN S
    ELSE IF Throws(S) THEN Fail(S, "query_error")
    ELSE LET r2 == [i \in DOMAIN S.rows |->
                       IF S.rows[i].key = k /\ S.rows[i].version = ver
                       THEN [S.rows[i] EXCEPT !.is_active = TRUE] ELSE S.rows[i]]
         IN  IF ~UniqueActiveOK(r2) THEN Fail(S, "unique_violation")
             ELSE IF \A i \in DOMAIN r2 : ~(r2[i].key = k /\ r2[i].version = ver)
                  THEN Fail(S, "version_not_found")
             ELSE [Ran(S) EXCEPT !.rows = r2]

\* variant: the target version is activated without deactivating the current one
RollbackTxNoDeactivate(S, k, ver) == StmtActivateVersion(S, k, ver)

RollbackTx(S, k, ver) == StmtActivateVersion(StmtDeactivateKey(S, k), k, ver)

RollbackPortfolioItem(k, ver) ==
    LET S == RollbackTx(Begin(rows), k, ver)
    IN  /\ rows' = Committed(rows, S)
        /\ result' = S.err

(***************************************************************************)
(* updateExperienceWithAchievements(id, experienceData, achievements).     *)
(***************************************************************************)
\* ids already drawn by uuid() that are visible in the table
UuidsIn(r) ==
    {r[i].key[2] : i \in {j \in DOMAIN r : r[j].type = "achievement"}}
    \cup {r[i].value.id : i \in {j \in DOMAIN r : r[j].type = "achievement"}}

RECURSIVE FreshFrom(_, _)
FreshFrom(used, n) == IF n \in used THEN FreshFrom(used, n - 1) ELSE n

\* uuid(): a value no row carries yet
Uuid(r) == FreshFrom(UuidsIn(r), -1)

\* the for loop that inserts the achievements; i is the 0-based index
RECURSIVE InsertAchievements(_, _, _, _)
InsertAchievements(S, id, L, i) ==
    IF L = <<>> \/ ~S.ok THEN S
    ELSE LET a == Head(L)
             u1 == Uuid(S.rows)
             u2 == u1 - 1
             achievementKey == AchievementKey(IF a.id # NoId THEN a.id ELSE u1)
             achievementData ==
                 [id |-> IF a.id # NoId THEN a.id ELSE u2,
                  experience_id |-> id,
                  description |-> a.description,
                  sort_order |-> IF a.sort_order # 0 THEN a.sort_order ELSE i]
         IN  InsertAchievements(
                 StmtInsert(S, achievementKey, "achievement", achievementData, 1),
                 id, Tail(L), i + 1)

\* variant: the new achievements are added to the existing ones (merge)
UpdateExperienceTxMerge(S, r0, id, experienceData, L) ==
    LET experienceKey == ExperienceKey(id)
        currentExperience == GetPortfolioItem(r0, experienceKey)
    IN  IF currentExperience = Null THEN Fail(S, "not_found")
        ELSE LET S1 == StmtDeactivateKey(S, experienceKey)
                 S2 == StmtInsert(S1, experienceKey, "experience",
                           Merge(Merge(currentExperience, experienceData), [id |-> id]),
                           NextVersion(S1.rows, experienceKey))
             IN  InsertAchievements(S2, id, L, 0)

UpdateExperienceTx(S, r0, id, experienceData, L) ==
    LET experienceKey == ExperienceKey(id)
        currentExperience == GetPortfolioItem(r0, experienceKey)
    IN  IF currentExperience = Null THEN Fail(S, "not_found")
        ELSE LET S1 == StmtDeactivateKey(S, experienceKey)
                 S2 == StmtInsert(S1, experienceKey, "experience",
                           Merge(Merge(currentExperience, experienceData), [id |-> id]),
                           NextVersion(S1.rows, experienceKey))
                 S3 == StmtDeactivateChildren(S2, "achievement", "experience_id", id)
             IN  InsertAchievements(S3, id, L, 0)

AchievementEntries == {[id |-> i, description |-> "b", sort_order |-> 0] : i \in {NoId, 1}}

AchievementLists == SeqsUpTo(AchievementEntries, MaxListLen)

ExperiencePatches == {[title |-> "b"]}

UpdateExperienceWithAchievements(id, experienceData, L) ==
    LET S == UpdateExperienceTx(Begin(rows), rows, id, experienceData, L)
    IN  /\ rows' = Committed(rows, S)
        /\ result' = S.err

(***************************************************************************)
(* deleteExperience(id): the achievements first, then the experience, each *)
(* by its own deletePortfolioItem call.                                    *)
(***************************************************************************)
GetAchievementsForExperience(r, experienceId) ==
    SelectSeq(GetPortfolioItemsByType(r, "achievement"),
              LAMBDA a : a.experience_id = experienceId)

RECURSIVE DeleteAchievements(_, _)
DeleteAchievements(r, achievements) ==
    IF achievements = <<>> THEN r
    ELSE DeleteAchievements(DeactivateKey(r, AchievementKey(Head(achievements).id)),
                            Tail(achievements))

DeleteExperience(id) ==
    LET r1 == DeleteAchievements(rows, GetAchievementsForExperience(rows, id))
    IN  /\ rows' = DeactivateKey(r1, ExperienceKey(id))
        /\ result' = "ok"

(***************************************************************************)
(* createProject / updateProject / deleteProject.                          *)
(***************************************************************************)
\* the for loop that inserts one project_tech row per technology
RECURSIVE InsertTechnologies(_, _, _)
InsertTechnologies(S, id, T) ==
    IF T = <<>> \/ ~S.ok THEN S
    ELSE InsertTechnologies(
             StmtInsert(S, TechKey(id, Head(T)), "project_tech",
                        [project_id |-> id, technology |-> Head(T)], 1),
             id, Tail(T))

CreateProjectTx(S, projectData) ==
    LET S1 == StmtInsert(S, ProjectKey(projectData.id), "project", projectData, 1)
    IN  IF "technologies" \in DOMAIN projectData
        THEN InsertTechnologies(S1, projectData.id, projectData.technologies)
        ELSE S1

\* variant: the new technologies are added to the ones the project has
UpdateProjectTxKeepTech(S, r0, id, projectData) ==
    LET projectKey == ProjectKey(id)
        currentProject == GetPortfolioItem(r0, projectKey)
    IN  IF currentProject = Null THEN Fail(S, "not_found")
        ELSE LET S1 == StmtDeactivateKey(S, projectKey)
                 S2 == StmtInsert(S1, projectKey, "project",
                           Merge(Merge(currentProject, projectData), [id |-> id]),
                           NextVersion(S1.rows, projectKey))
             IN  IF "technologies" \in DOMAIN projectData
                 THEN InsertTechnologies(S2, id, projectData.technologies)
                 ELSE S2

UpdateProjectTx(S, r0, id, projectData) ==
    LET projectKey == ProjectKey(id)
        currentProject == GetPortfolioItem(r0, projectKey)
    IN  IF currentProject = Null THEN Fail(S, "not_found")
        ELSE LET S1 == StmtDeactivateKey(S, projectKey)
                 S2 == StmtInsert(S1, projectKey, "project",
                           Merge(Merge(currentProject, projectData), [id |-> id]),
                           NextVersion(S1.rows, projectKey))
             IN  IF "technologies" \in DOMAIN projectData
                 THEN InsertTechnologies(
                          StmtDeactivateChildren(S2, "project_tech", "project_id", id),
                          id, projectData.technologies)
                 ELSE S2

DeleteProjectTx(S, id) ==
    LET S1 == StmtDeactivateChildren(S, "project_tech", "project_id", id)
        S2 == StmtDeactivateChildren(S1, "project_image", "project_id", id)
    IN  StmtDeactivateKey(S2, ProjectKey(id))

TechLists == {<<>>, <<"go">>, <<"go", "pg">>}

ProjectDocs ==
    {[id |-> i, title |-> "a", sort_order |-> 0, technologies |-> T] :
        i \in ProjIds, T \in TechLists}

ProjectPatches == {[title |-> "b"]} \cup {[technologies |-> T] : T \in {<<>>, <<"go">>}}

CreateProject(projectData) ==
    LET S == CreateProjectTx(Begin(rows), projectData)
    IN  /\ rows' = Committed(rows, S)
        /\ result' = S.err

UpdateProject(id, projectData) ==
    LET S == UpdateProjectTx(Begin(rows), rows, id, projectData)
    IN  /\ rows' = Committed(rows, S)
        /\ result' = S.err

DeleteProject(id) ==
    LET S == DeleteProjectTx(Begin(rows), id)
    IN  /\ rows' = Committed(rows, S)
        /\ result' = S.err

(***************************************************************************)
(* updateSkillsOrder / updateExperiencesOrder / updateProjectsOrder: the   *)
(* three functions are the same loop over another key prefix and type.     *)
(* The current value is read through the pool (getPortfolioItem), so it is *)
(* the committed value r0, not the one the transaction has written.        *)
(***************************************************************************)
RECURSIVE OrderLoop(_, _, _, _)
OrderLoop(S, r0, t, lst) ==
    IF lst = <<>> \/ ~S.ok THEN S
    ELSE LET key == <<t, Head(lst).id>>
             current == GetPortfolioItem(r0, key)
         IN  IF current = Null THEN OrderLoop(S, r0, t, Tail(lst))
             ELSE LET S1 == StmtDeactivateKey(S, key)
                      S2 == StmtInsert(S1, key, t,
                                Merge(current, [sort_order |-> Head(lst).sort_order]),
                                NextVersion(S1.rows, key))
                  IN  OrderLoop(S2, r0, t, Tail(lst))

OrderLists(ids) == SeqsUpTo({[id |-> i, sort_order |-> 1] : i \in ids}, MaxListLen)

UpdateSkillsOrder(skillsWithOrder) ==
    LET S == OrderLoop(Begin(rows), rows, "skill", skillsWithOrder)
    IN  /\ rows' = Committed(rows, S)
        /\ result' = S.err

UpdateExperiencesOrder(experiencesWithOrder) ==
    LET S == OrderLoop(Begin(rows), rows, "experience", experiencesWithOrder)
    IN  /\ rows' = Committed(rows, S)
        /\ result' = S.err

UpdateProjectsOrder(projectsWithOrder) ==
    LET S == OrderLoop(Begin(rows), rows, "project", projectsWithOrder)
    IN  /\ rows' = Committed(rows, S)
        /\ result' = S.err

(***************************************************************************)
(* Spec: every store operation, one completed call after the other.        *)
(***************************************************************************)
Next ==
    \/ /\ Len(rows) < MaxRows /\ \E c \in SetCalls : SetPortfolioItem(c[1], c[2], c[3])
       /\ UNCHANGED <<cacheVars, txs, db>>
    \/ /\ \E k \in Keys : DeletePortfolioItem(k)
       /\ UNCHANGED <<cacheVars, txs, db>>
    \/ /\ \E k \in Keys, ver \in Versions : RollbackPortfolioItem(k, ver)
       /\ UNCHANGED <<cacheVars, txs, db>>
    \/ /\ Len(rows) < MaxRows
       /\ \E id \in ExpIds, p \in ExperiencePatches, L \in AchievementLists :
              UpdateExperienceWithAchievements(id, p, L)
       /\ UNCHANGED <<cacheVars, txs, db>>
    \/ /\ \E id \in ExpIds : DeleteExperience(id)
       /\ UNCHANGED <<cacheVars, txs, db>>
    \/ /\ Len(rows) < MaxRows /\ \E pd \in ProjectDocs : CreateProject(pd)
       /\ UNCHANGED <<cacheVars, txs, db>>
    \/ /\ Len(rows) < MaxRows
       /\ \E id \in ProjIds, pd \in ProjectPatches : UpdateProject(id, pd)
       /\ UNCHANGED <<cacheVars, txs, db>>
    \/ /\ \E id \in ProjIds : DeleteProject(id)
       /\ UNCHANGED <<cacheVars, txs, db>>
    \/ /\ Len(rows) < MaxRows /\ \E l \in OrderLists(SkillIds) : UpdateSkillsOrder(l)
       /\ UNCHANGED <<cacheVars, txs, db>>
    \/ /\ Len(rows) < MaxRows /\ \E l \in OrderLists(ExpIds) : UpdateExperiencesOrder(l)
       /\ UNCHANGED <<cacheVars, txs, db>>
    \/ /\ Len(rows) < MaxRows /\ \E l \in OrderLists(ProjIds) : UpdateProjectsOrder(l)
       /\ UNCHANGED <<cacheVars, txs, db>>

Spec == Init /\ [][Next]_vars

(***************************************************************************)
(* SpecSet: nothing but setPortfolioItem calls on an empty table.          *)
(***************************************************************************)
NextSet ==
    /\ Len(rows) < MaxSetRows /\ \E c \in SetCalls : SetPortfolioItem(c[1], c[2], c[3])
    /\ UNCHANGED <<cacheVars, txs, db>>

SpecSet == Init /\ [][NextSet]_vars

(***************************************************************************)
(* SpecAccessor: the three writers of the core accessor.                   *)
(***************************************************************************)
AccessorKeys == {c[1] : c \in SetCalls}

NextAccessor ==
    \/ /\ Len(rows) < MaxAccRows /\ \E c \in SetCalls : SetPortfolioItem(c[1], c[2], c[3])
       /\ UNCHANGED <<cacheVars, txs, db>>
    \/ /\ \E k \in AccessorKeys : DeletePortfolioItem(k)
       /\ UNCHANGED <<cacheVars, txs, db>>
    \/ /\ \E k \in AccessorKeys, ver \in 1 .. MaxAccRows : RollbackPortfolioItem(k, ver)
       /\ UNCHANGED <<cacheVars, txs, db>>

SpecAccessor == Init /\ [][NextAccessor]_vars

(***************************************************************************)
(* SpecExp: the operations on experiences and their achievements.          *)
(***************************************************************************)
ExpIds2 == {1, 2}
AchIds2 == {1, 2}

ExpKeys ==
    {ExperienceKey(i) : i \in ExpIds2} \cup {AchievementKey(i) : i \in AchIds2 \cup {-1}}

NextExp ==
    \/ /\ Len(rows) < MaxExpRows
       /\ \E c \in ExperienceCalls(ExpIds2, AchIds2) : SetPortfolioItem(c[1], c[2], c[3])
       /\ UNCHANGED <<cacheVars, txs, db>>
    \/ /\ \E k \in ExpKeys : DeletePortfolioItem(k)
       /\ UNCHANGED <<cacheVars, txs, db>>
    \/ /\ Len(rows) < MaxExpRows
       /\ \E id \in ExpIds2, p \in ExperiencePatches, L \in AchievementLists :
              UpdateExperienceWithAchievements(id, p, L)
       /\ UNCHANGED <<cacheVars, txs, db>>
    \/ /\ \E id \in ExpIds2 : DeleteExperience(id)
       /\ UNCHANGED <<cacheVars, txs, db>>
    \/ /\ Len(rows) < MaxExpRows /\ \E l \in OrderLists(ExpIds2) : UpdateExperiencesOrder(l)
       /\ UNCHANGED <<cacheVars, txs, db>>

SpecExp == Init /\ [][NextExp]_vars

(***************************************************************************)
(* updateSkill(id, skillData) and the wrappers the routes call.            *)
(***************************************************************************)
SetProfile(profileData) == SetPortfolioItem(ProfileKey, "profile", profileData)

CreateSkill(skillData) == SetPortfolioItem(SkillKey(skillData.id), "skill", skillData)

\* createSkill with its stamp kept: { ...skillData, created_at: now }
CreateSkillAt(skillData, now) ==
    SetPortfolioItem(SkillKey(skillData.id), "skill",
                     Merge(skillData, [created_at |-> now]))

\* { ...o, created_at: stamp }: a stamp that is undefined is dropped when the
\* document is serialised
WithCreatedAt(o, current) ==
    IF "created_at" \in DOMAIN current
    THEN Merge(o, [created_at |-> current.created_at])
    ELSE [f \in (DOMAIN o) \ {"created_at"} |-> o[f]]

\* variant: the fields of the patch win over id and created_at
UpdateSkillPatchWins(id, skillData) ==
    LET currentSkill == GetPortfolioItem(rows, SkillKey(id))
    IN  IF currentSkill = Null
        THEN /\ rows' = rows
             /\ result' = "not_found"
        ELSE SetPortfolioItem(SkillKey(id), "skill", Merge(currentSkill, skillData))

UpdateSkill(id, skillData) ==
    LET currentSkill == GetPortfolioItem(rows, SkillKey(id))
    IN  IF currentSkill = Null
        THEN /\ rows' = rows
             /\ result' = "not_found"
        ELSE SetPortfolioItem(SkillKey(id), "skill",
                 WithCreatedAt(Merge(Merge(currentSkill, skillData), [id |-> id]),
                               currentSkill))

DeleteSkill(id) == DeletePortfolioItem(SkillKey(id))

(***************************************************************************)
(* JavaScript objects used as maps: the entries in insertion order.        *)
(***************************************************************************)
ObjHas(o, k) == \E i \in DOMAIN o : o[i].key = k

\* o[k] = v
ObjSet(o, k, v) ==
    IF ObjHas(o, k)
    THEN [i \in DOMAIN o |-> IF o[i].key = k THEN [key |-> k, value |-> v] ELSE o[i]]
    ELSE Append(o, [key |-> k, value |-> v])

\* delete o[k]
ObjDel(o, k) == SelectSeq(o, LAMBDA e : e.key # k)

\* Object.values(o)
ObjValues(o) == [i \in DOMAIN o |-> o[i].value]

(***************************************************************************)
(* CacheProvider and DatabaseProvider.                                     *)
(***************************************************************************)
CachePrefix == "portfolio_data"

\* `portfolio_data:${key}`
CacheKey(key) == <<CachePrefix>> \o key

\* cache.keys().filter(key => key.startsWith(keyPrefix)), then items[key] = cache.get(key)
CacheGetAllItems(c, keyPrefix) == SelectSeq(c, LAMBDA e : e.key[1] = keyPrefix)

CacheSetItem(c, key, value) == ObjSet(c, key, value)

CacheDeleteItem(c, key) == ObjDel(c, key)

\* ORDER BY type: the types of the table in collation order
TypeOrder ==
    <<"achievement", "experience", "profile", "project", "project_image",
      "project_tech", "skill">>

\* SELECT key, value, type FROM portfolio_data WHERE is_active = TRUE
\*   ORDER BY type, created_at ASC
RECURSIVE SelectActiveByType(_, _)
SelectActiveByType(r, types) ==
    IF types = <<>> THEN <<>>
    ELSE SelectSeq(r, LAMBDA x : x.is_active /\ x.type = Head(types))
         \o SelectActiveByType(r, Tail(types))

\* result.rows.forEach(row => items[row.key] = { ...row.value, _dbType: row.type })
RECURSIVE CollectItems(_, _)
CollectItems(selected, items) ==
    IF selected = <<>> THEN items
    ELSE CollectItems(Tail(selected),
             ObjSet(items, Head(selected).key,
                    Merge(Head(selected).value, "_dbType" :> Head(selected).type)))

DbGetAllItems(r) == CollectItems(SelectActiveByType(r, TypeOrder), <<>>)

(***************************************************************************)
(* PortfolioDataAccessor: shaping of the flat items into the response.     *)
(* A field test `item.f` is modelled as "the document has the field": the  *)
(* documents of the model hold no falsy value in the fields tested.        *)
(***************************************************************************)
Has(item, f) == f \in DOMAIN item

GetTypeFromItem(item) ==
    IF Has(item, "_dbType") THEN item["_dbType"]
    ELSE IF Has(item, "name") /\ Has(item, "category") THEN "skill"
    ELSE IF Has(item, "company") /\ Has(item, "position") THEN "experience"
    ELSE IF Has(item, "experience_id") THEN "achievement"
    ELSE IF Has(item, "title") /\ Has(item, "slug") THEN "project"
    ELSE IF Has(item, "project_id") /\ Has(item, "technology") THEN "project_tech"
    ELSE IF Has(item, "project_id") /\ Has(item, "image_url") THEN "project_image"
    ELSE "profile"

\* dataByType[type] || []
OfType(values, type) == SelectSeq(values, LAMBDA x : GetTypeFromItem(x) = type)

\* Array.prototype.sort((a, b) => a.sort_order - b.sort_order): stable
RECURSIVE InsertBySortOrder(_, _)
InsertBySortOrder(x, s) ==
    IF s = <<>> THEN <<x>>
    ELSE IF x.sort_order < Head(s).sort_order THEN <<x>> \o s
    ELSE <<Head(s)>> \o InsertBySortOrder(x, Tail(s))

RECURSIVE SortBySortOrder(_)
SortBySortOrder(s) ==
    IF s = <<>> THEN <<>>
    ELSE InsertBySortOrder(s[Len(s)], SortBySortOrder(SubSeq(s, 1, Len(s) - 1)))

\* a.name.localeCompare(b.name) over the names of the model
NameOrder == <<"a", "b">>

NameRank(n) == CHOOSE i \in DOMAIN NameOrder : NameOrder[i] = n

\* JSON null in the field proficiency (the numbers of the routes are 1 .. 5)
NullProficiency == 0

Sign(n) == IF n < 0 THEN -1 ELSE IF n > 0 THEN 1 ELSE 0

\* a.f !== b.f, where a field that is missing reads as undefined
Differ(a, b, f) ==
    IF Has(a, f) /\ Has(b, f) THEN a[f] # b[f] ELSE Has(a, f) \/ Has(b, f)

\* the comparator of processFeaturedSkills, by the sign of what it returns; a
\* subtraction with undefined gives NaN, which sort() takes as 0
SkillCompare(a, b) ==
    IF Differ(a, b, "proficiency")
    THEN IF Has(a, "proficiency") /\ a.proficiency = NullProficiency THEN 1
         ELSE IF Has(b, "proficiency") /\ b.proficiency = NullProficiency THEN -1
         ELSE IF Has(a, "proficiency") /\ Has(b, "proficiency")
              THEN Sign(b.proficiency - a.proficiency)
              ELSE 0
    ELSE IF Differ(a, b, "sort_order")
    THEN IF Has(a, "sort_order") /\ Has(b, "sort_order")
         THEN Sign(a.sort_order - b.sort_order)
         ELSE 0
    ELSE Sign(NameRank(a.name) - NameRank(b.name))

SkillBefore(a, b) == SkillCompare(a, b) < 0

RECURSIVE InsertSkill(_, _)
InsertSkill(x, s) ==
    IF s = <<>> THEN <<x>>
    ELSE IF SkillBefore(x, Head(s)) THEN <<x>> \o s
    ELSE <<Head(s)>> \o InsertSkill(x, Tail(s))

RECURSIVE SortSkills(_)
SortSkills(s) ==
    IF s = <<>> THEN <<>>
    ELSE InsertSkill(s[Len(s)], SortSkills(SubSeq(s, 1, Len(s) - 1)))

ProcessFeaturedSkills(allSkills) ==
    SortSkills(SelectSeq(allSkills,
                         LAMBDA skill : Has(skill, "is_featured") /\ skill.is_featured = TRUE))

\* variant: every achievement is attached to every experience
ProcessExperiencesAttachAll(experiences, achievements) ==
    SortBySortOrder(
        [i \in DOMAIN experiences |->
            Merge(experiences[i], [achievements |-> SortBySortOrder(achievements)])])

ProcessExperiencesWithAchievements(experiences, achievements) ==
    SortBySortOrder(
        [i \in DOMAIN experiences |->
            Merge(experiences[i],
                  [achievements |->
                      SortBySortOrder(SelectSeq(achievements,
                          LAMBDA a : a.experience_id = experiences[i].id))])])

ProcessProjectsWithTech(projects, technologies, images) ==
    LET published == SelectSeq(projects,
                         LAMBDA p : Has(p, "status") /\ p.status = "published")
        techsOf(id) == SelectSeq(technologies, LAMBDA t : t.project_id = id)
    IN  SortBySortOrder(
            [i \in DOMAIN published |->
                Merge(published[i],
                      [technologies |->
                           [j \in DOMAIN techsOf(published[i].id) |->
                               techsOf(published[i].id)[j].technology],
                       images |->
                           SortBySortOrder(SelectSeq(images,
                               LAMBDA im : im.project_id = published[i].id))])])

ProcessPortfolioItems(items) ==
    LET values == ObjValues(items)
    IN  [profile |-> IF OfType(values, "profile") = <<>> THEN Null
                     ELSE OfType(values, "profile")[1],
         skills |-> ProcessFeaturedSkills(OfType(values, "skill")),
         experiences |-> ProcessExperiencesWithAchievements(
                             OfType(values, "experience"), OfType(values, "achievement")),
         projects |-> ProcessProjectsWithTech(
                          OfType(values, "project"), OfType(values, "project_tech"),
                          OfType(values, "project_image"))]

FetchAndProcessFromDB(r) == ProcessPortfolioItems(DbGetAllItems(r))

\* the call is answered without a store read: caching is on and the cache holds items
ServedFromCache(e, c) == e /\ Len(CacheGetAllItems(c, CachePrefix)) > 0

\* variant: the cache is tried first whatever CACHE_CONFIG.ENABLED says
GetPortfolioDataCacheFirst(e, c, r) ==
    IF Len(CacheGetAllItems(c, CachePrefix)) > 0
    THEN ProcessPortfolioItems(CacheGetAllItems(c, CachePrefix))
    ELSE FetchAndProcessFromDB(r)

GetPortfolioData(e, c, r) ==
    IF ~e THEN FetchAndProcessFromDB(r)
    ELSE IF Len(CacheGetAllItems(c, CachePrefix)) > 0
         THEN ProcessPortfolioItems(CacheGetAllItems(c, CachePrefix))
         ELSE FetchAndProcessFromDB(r)

\* updateCacheItem(key, value) / deleteCacheItem(key): no route calls them
UpdateCacheItem(e, c, key, value) ==
    IF ~e THEN c ELSE CacheSetItem(c, CacheKey(key), value)

DeleteCacheItem(e, c, key) ==
    IF ~e THEN c ELSE CacheDeleteItem(c, CacheKey(key))

(***************************************************************************)
(* GET /data: getCachedPortfolioData().  The inputs say what the           *)
(* environment does during the call: cacheOk, the reading and shaping of   *)
(* the cache entries completes without throwing; dbOk, the store answers   *)
(* the query of the try block; retryOk, it answers the query of the catch  *)
(* block.                                                                  *)
(***************************************************************************)
\* variant: the store is queried before the cache is looked at
TryThrowsStoreFirst(e, c, cacheOk, dbOk) == ~dbOk \/ (e /\ ~cacheOk)

\* the try block of getPortfolioData() throws
TryThrows(e, c, cacheOk, dbOk) ==
    IF ~e THEN ~dbOk
    ELSE IF ~cacheOk THEN TRUE
    ELSE IF ServedFromCache(e, c) THEN FALSE
    ELSE ~dbOk

\* variant: the catch block rethrows instead of reading the store
CatchRethrow(r, retryOk) == ErrorResponse

\* catch (error) { return await this.fetchAndProcessFromDB(); }
CatchFallback(r, retryOk) ==
    IF retryOk THEN OkResponse(FetchAndProcessFromDB(r)) ELSE ErrorResponse

\* variant: read-through, what the fallback read from the store is put in the cache
GetCachedPortfolioDataFilling(cacheOk, dbOk, retryOk) ==
    /\ served' = IF TryThrows(enabled, cache, cacheOk, dbOk)
                 THEN CatchFallback(rows, retryOk)
                 ELSE OkResponse(GetPortfolioData(enabled, cache, rows))
    /\ cache' = IF served'.status = "ok" /\ ~ServedFromCache(enabled, cache)
                THEN [i \in 1 .. Len(DbGetAllItems(rows)) |->
                         [key |-> CacheKey(DbGetAllItems(rows)[i].key),
                          value |-> DbGetAllItems(rows)[i].value]]
                ELSE cache
    /\ UNCHANGED <<rows, result, enabled, txs, db, isRefreshing, refreshTimer, runs>>

GetCachedPortfolioData(cacheOk, dbOk, retryOk) ==
    /\ served' = IF TryThrows(enabled, cache, cacheOk, dbOk)
                 THEN CatchFallback(rows, retryOk)
                 ELSE OkResponse(GetPortfolioData(enabled, cache, rows))
    /\ UNCHANGED <<rows, result, enabled, txs, db, cache, isRefreshing, refreshTimer, runs>>

(***************************************************************************)
(* CacheRefreshManager.  An execution of refreshCacheWithRetry that has    *)
(* passed the isRefreshing test is a record of runs; its steps are the     *)
(* pieces of the function between two awaits.                              *)
(*   "health"   awaiting dbProvider.isHealthy()                            *)
(*   "fetch"    awaiting dbProvider.getAllItems() of attempt `attempt`     *)
(*              (the backoff sleep before it included)                     *)
(*   "fetched"  the query has been answered, the continuation not yet run  *)
(*              (attempt is not read any more and is kept at 0)            *)
(*   "populate" cache cleared, `items` are the entries not yet set         *)
(* thenStart: the caller is initialize(), which goes on to                 *)
(* startPeriodicRefresh() once the call returns.                           *)
(* slept: the delays (ms) of the sleep() calls made between the fetch      *)
(* attempts so far.  fresh: freshItems, the object the fetch returned.     *)
(***************************************************************************)
RunAt(pc, attempt, items, thenStart) ==
    [pc |-> pc, attempt |-> attempt, items |-> items, thenStart |-> thenStart,
     slept |-> <<>>, fresh |-> items]

\* variant: the same delay before every retry
BackoffDelayFixed(attempt) == baseDelay

\* const delay = baseDelay * Math.pow(2, attempt - 1)
BackoffDelay(attempt) == baseDelay * 2 ^ (attempt - 1)

InFlight(rs) == {p \in Procs : rs[p].pc # "idle"}

\* variant: a new interval is armed without clearing the one in place
StartPeriodicRefreshNoClear(tm) == [set |-> TRUE, live |-> tm.live + 1]

\* startPeriodicRefresh(): clearInterval of the handle in place, then setInterval
StartPeriodicRefresh(tm) ==
    [set |-> TRUE, live |-> (IF tm.set THEN tm.live - 1 ELSE tm.live) + 1]

\* the continuation of initialize() after `await this.refreshCacheWithRetry()`
AfterRefresh(thenStart, tm) == IF thenStart THEN StartPeriodicRefresh(tm) ELSE tm

\* the lowest record of runs that is not in use
FreeProc(rs) ==
    CHOOSE p \in Procs : rs[p].pc = "idle" /\ \A q \in 1 .. (p - 1) : rs[q].pc # "idle"

\* variant: the isRefreshing test is left out, every call starts an execution
RefreshEnterUnguarded(thenStart) ==
    /\ \E p \in Procs : runs[p].pc = "idle"
    /\ isRefreshing' = TRUE
    /\ runs' = [runs EXCEPT ![FreeProc(runs)] = RunAt("health", 0, <<>>, thenStart)]
    /\ UNCHANGED refreshTimer

\* refreshCacheWithRetry() up to its first await
RefreshEnter(thenStart) ==
    IF isRefreshing
    THEN /\ refreshTimer' = AfterRefresh(thenStart, refreshTimer)
         /\ UNCHANGED <<isRefreshing, runs>>
    ELSE /\ \E p \in Procs : runs[p].pc = "idle"
         /\ isRefreshing' = TRUE
         /\ runs' = [runs EXCEPT ![FreeProc(runs)] = RunAt("health", 0, <<>>, thenStart)]
         /\ UNCHANGED refreshTimer

\* variant: no finally block, the flag stays as the execution found it
FinishNoFinally(p, outcome) ==
    /\ isRefreshing' = isRefreshing
    /\ refreshTimer' = AfterRefresh(runs[p].thenStart, refreshTimer)
    /\ runs' = [runs EXCEPT ![p] = Idle]
    /\ result' = outcome

\* the return of refreshCacheWithRetry: the finally block, then the caller
Finish(p, outcome) ==
    /\ isRefreshing' = FALSE
    /\ refreshTimer' = AfterRefresh(runs[p].thenStart, refreshTimer)
    /\ runs' = [runs EXCEPT ![p] = Idle]
    /\ result' = outcome

\* the manager as the listen callback of the server finds it
AtStartup == ~refreshTimer.set

\* initialize(), called while no refresh is in flight
Initialize ==
    /\ ~isRefreshing /\ InFlight(runs) = {}
    /\ IF ~enabled THEN UNCHANGED <<isRefreshing, refreshTimer, runs>>
       ELSE RefreshEnter(TRUE)
    /\ served' = NoResponse
    /\ UNCHANGED <<rows, result, enabled, txs, db, cache>>

\* the setInterval callback
Tick ==
    /\ refreshTimer.live > 0
    /\ RefreshEnter(FALSE)
    /\ served' = NoResponse
    /\ UNCHANGED <<rows, result, enabled, txs, db, cache>>

\* invalidateCache() -> forceRefresh(), as called by POST /admin/cache/refresh
ForceRefresh ==
    /\ RefreshEnter(FALSE)
    /\ served' = NoResponse
    /\ UNCHANGED <<rows, result, enabled, txs, db, cache>>

\* variant: an unhealthy store makes the refresh drop the cached items
HealthCheckClearing(p, isHealthy) ==
    /\ runs[p].pc = "health"
    /\ IF isHealthy
       THEN /\ runs' = [runs EXCEPT ![p] = RunAt("fetch", 1, <<>>, runs[p].thenStart)]
            /\ UNCHANGED <<result, isRefreshing, refreshTimer, cache>>
       ELSE /\ Finish(p, "unhealthy")
            /\ cache' = <<>>
    /\ served' = NoResponse
    /\ UNCHANGED <<rows, enabled, txs, db>>

HealthCheck(p, isHealthy) ==
    /\ runs[p].pc = "health"
    /\ IF isHealthy
       THEN /\ runs' = [runs EXCEPT ![p] = RunAt("fetch", 1, <<>>, runs[p].thenStart)]
            /\ UNCHANGED <<result, isRefreshing, refreshTimer>>
       ELSE Finish(p, "unhealthy")
    /\ served' = NoResponse
    /\ UNCHANGED <<rows, enabled, txs, db, cache>>

\* the query of getAllItems is answered
FetchSucceeds(p) ==
    /\ runs[p].pc = "fetch"
    /\ runs' = [runs EXCEPT ![p] =
                   RunAt("fetched", 0, DbGetAllItems(rows), runs[p].thenStart)]
    /\ served' = NoResponse
    /\ UNCHANGED <<rows, result, enabled, txs, db, cache, isRefreshing, refreshTimer>>

\* variant: clear-then-fetch, the cache is emptied before the fetch is known to succeed
FetchFailsCleared(p) ==
    /\ runs[p].pc = "fetch"
    /\ IF runs[p].attempt = maxRetries
       THEN Finish(p, "all_attempts_failed")
       ELSE /\ runs' = [runs EXCEPT ![p].attempt = @ + 1,
                                    ![p].slept = Append(@, BackoffDelay(runs[p].attempt))]
            /\ UNCHANGED <<result, isRefreshing, refreshTimer>>
    /\ cache' = <<>>
    /\ served' = NoResponse
    /\ UNCHANGED <<rows, enabled, txs, db>>

\* getAllItems throws: the catch block, and the sleep before the next attempt
FetchFails(p) ==
    /\ runs[p].pc = "fetch"
    /\ IF runs[p].attempt = maxRetries
       THEN Finish(p, "all_attempts_failed")
       ELSE /\ runs' = [runs EXCEPT ![p].attempt = @ + 1,
                                    ![p].slept = Append(@, BackoffDelay(runs[p].attempt))]
            /\ UNCHANGED <<result, isRefreshing, refreshTimer>>
    /\ served' = NoResponse
    /\ UNCHANGED <<rows, enabled, txs, db, cache>>

\* variant: the entries are set over the old ones, without clearing
ClearAfterFetchKeeping(p) ==
    /\ runs[p].pc = "fetched"
    /\ cache' = cache
    /\ runs' = [runs EXCEPT ![p].pc = "populate"]
    /\ served' = NoResponse
    /\ UNCHANGED <<rows, result, enabled, txs, db, isRefreshing, refreshTimer>>

\* cacheProvider.clear() after the successful fetch
ClearAfterFetch(p) ==
    /\ runs[p].pc = "fetched"
    /\ cache' = <<>>
    /\ runs' = [runs EXCEPT ![p].pc = "populate"]
    /\ served' = NoResponse
    /\ UNCHANGED <<rows, result, enabled, txs, db, isRefreshing, refreshTimer>>

\* one round of the populate loop, or its end
Populate(p) ==
    /\ runs[p].pc = "populate"
    /\ IF runs[p].items = <<>>
       THEN /\ Finish(p, "refreshed")
            /\ UNCHANGED cache
       ELSE /\ cache' = CacheSetItem(cache, CacheKey(Head(runs[p].items).key),
                                     Head(runs[p].items).value)
            /\ runs' = [runs EXCEPT ![p].items = Tail(@)]
            /\ UNCHANGED <<result, isRefreshing, refreshTimer>>
    /\ served' = NoResponse
    /\ UNCHANGED <<rows, enabled, txs, db>>

\* variant: the entries are set in the reverse of the order of the fetch
RECURSIVE PopulateAllReversed(_, _)
PopulateAllReversed(c, items) ==
    IF items = <<>> THEN c
    ELSE CacheSetItem(PopulateAllReversed(c, Tail(items)),
                      CacheKey(Head(items).key), Head(items).value)

\* for (const [key, value] of Object.entries(freshItems)) setItem(`portfolio_data:${key}`, value)
RECURSIVE PopulateAll(_, _)
PopulateAll(c, items) ==
    IF items = <<>> THEN c
    ELSE PopulateAll(CacheSetItem(c, CacheKey(Head(items).key), Head(items).value),
                     Tail(items))

\* variant: the execution is cut short after the first entry has been set
ClearAndPopulateFirst(p) ==
    /\ runs[p].pc = "fetched"
    /\ cache' = PopulateAll(<<>>, IF runs[p].items = <<>> THEN <<>>
                                  ELSE <<Head(runs[p].items)>>)
    /\ Finish(p, "refreshed")
    /\ served' = NoResponse
    /\ UNCHANGED <<rows, enabled, txs, db>>

\* the continuation of the fetch in one piece: clear(), the populate loop and
\* the return.  The awaits between them are on async methods of CacheProvider
\* that do no I/O, so the continuations run as consecutive microtasks of one
\* turn of the event loop; no request handler, timer or I/O callback runs
\* between them.
ClearAndPopulate(p) ==
    /\ runs[p].pc = "fetched"
    /\ cache' = PopulateAll(<<>>, runs[p].items)
    /\ Finish(p, "refreshed")
    /\ served' = NoResponse
    /\ UNCHANGED <<rows, enabled, txs, db>>

Stop ==
    /\ refreshTimer' = IF refreshTimer.set
                       THEN [set |-> FALSE, live |-> refreshTimer.live - 1]
                       ELSE refreshTimer
    /\ isRefreshing' = FALSE
    /\ served' = NoResponse
    /\ UNCHANGED <<rows, result, enabled, txs, db, cache, runs>>

\* clearCache(), as called by POST /admin/cache/clear
ClearCache ==
    /\ cache' = <<>>
    /\ served' = NoResponse
    /\ UNCHANGED <<rows, result, enabled, txs, db, isRefreshing, refreshTimer, runs>>

(***************************************************************************)
(* The write routes: the data-layer call, then what the handler does for   *)
(* the cache.  The project routes await invalidateCache() after a          *)
(* successful write; the skill and profile routes end with the write.      *)
(***************************************************************************)
RouteSkillDocs ==
    {[id |-> i, name |-> "a", proficiency |-> 3, is_featured |-> TRUE, sort_order |-> 0] :
        i \in SkillIds}

SkillPatches == {[name |-> "b"]}

RouteProjectDocs ==
    {[id |-> i, title |-> "a", status |-> "published", sort_order |-> 0,
      technologies |-> T] : i \in ProjIds, T \in {<<>>, <<"go">>}}

RouteProjectPatches == {[title |-> "b"]}

InvalidateCache == RefreshEnter(FALSE)

WriteOnly ==
    /\ served' = NoResponse
    /\ UNCHANGED <<enabled, txs, db, cache, isRefreshing, refreshTimer, runs>>

\* PUT /api/profile
PutProfile(profileData) == SetProfile(profileData) /\ WriteOnly

\* POST /api/skills: the id is drawn by uuid()
PostSkill(skillData) ==
    /\ RowsOf(rows, SkillKey(skillData.id)) = <<>>
    /\ CreateSkill(skillData) /\ WriteOnly

\* PUT /api/skills/:id
PutSkill(id, body) == UpdateSkill(id, body) /\ WriteOnly

\* DELETE /api/skills/:id
DeleteSkillRoute(id) == DeleteSkill(id) /\ WriteOnly

\* PUT /api/skills/order/bulk
PutSkillsOrder(skills) == UpdateSkillsOrder(skills) /\ WriteOnly

\* `await invalidateCache()` after a write that went through
ThenInvalidate(written) ==
    /\ IF written THEN InvalidateCache ELSE UNCHANGED <<isRefreshing, refreshTimer, runs>>
    /\ served' = NoResponse
    /\ UNCHANGED <<enabled, txs, db, cache>>

\* POST /api/projects: the id is drawn by uuid()
PostProject(projectData) ==
    /\ RowsOf(rows, ProjectKey(projectData.id)) = <<>>
    /\ CreateProject(projectData)
    /\ ThenInvalidate(result' = "ok")

\* PATCH /api/projects/:id and PUT /api/projects/:id
PutProject(id, body) ==
    /\ UpdateProject(id, body)
    /\ ThenInvalidate(result' = "ok")

\* DELETE /api/projects/:id: 404 without invalidateCache() when no row was returned
DeleteProjectRoute(id) ==
    /\ DeleteProject(id)
    /\ ThenInvalidate(result' = "ok" /\ ActiveRowsOf(rows, ProjectKey(id)) # <<>>)

\* PUT /api/projects/order/bulk
PutProjectsOrder(projects) ==
    /\ UpdateProjectsOrder(projects)
    /\ ThenInvalidate(result' = "ok")

(***************************************************************************)
(* SpecRefresh: the refresh manager under every interleaving of its entry  *)
(* points with the steps of the executions in flight, with caching on,     *)
(* over a store that profile and skill writes change.                      *)
(***************************************************************************)
InitCache ==
    /\ rows = <<>>
    /\ result = "ok"
    /\ enabled \in BOOLEAN
    /\ CacheConstructed
    /\ txs = [t \in Tx |-> TxIdle]
    /\ db = NoCall

InitRefresh == InitCache /\ enabled = TRUE

RefreshProfileDocs == {[name |-> "a"]}

NextRefresh ==
    \/ Initialize
    \/ Tick
    \/ ForceRefresh
    \/ Stop
    \/ ClearCache
    \/ \E p \in Procs, isHealthy \in BOOLEAN : HealthCheck(p, isHealthy)
    \/ \E p \in Procs : FetchSucceeds(p)
    \/ \E p \in Procs : FetchFails(p)
    \/ \E p \in Procs : ClearAfterFetch(p)
    \/ \E p \in Procs : Populate(p)
    \/ Len(rows) < MaxRefreshRows /\ \E d \in RefreshProfileDocs : PutProfile(d)
    \/ Len(rows) < MaxRefreshRows /\ \E d \in RouteSkillDocs : PostSkill(d)
    \/ \E id \in SkillIds : DeleteSkillRoute(id)

SpecRefresh == InitRefresh /\ [][NextRefresh]_vars

\* the next piece of execution p: the promise it awaits settles (the pool
\* gives up connecting after connectionTimeoutMillis, query() retries a
\* bounded number of times, sleep() is a timer) and its continuation runs
RunStep(p) ==
    \/ \E isHealthy \in BOOLEAN : HealthCheck(p, isHealthy)
    \/ FetchSucceeds(p)
    \/ FetchFails(p)
    \/ ClearAfterFetch(p)
    \/ Populate(p)

\* SpecRefresh with every awaited promise settling
SpecRefreshFair ==
    InitRefresh /\ [][NextRefresh]_vars /\ \A p \in Procs : WF_vars(RunStep(p))

(***************************************************************************)
(* SpecServer: the running server.  initialize() at start-up, the timer,   *)
(* the admin cache routes, the write routes and GET /api/portfolio; stop()  *)
(* is not part of it, the process exits right after shutdownCache().       *)
(***************************************************************************)
RouteOrderLists(ids) == {<<[id |-> i, sort_order |-> 1]>> : i \in ids}

NextServer ==
    \/ AtStartup /\ Initialize
    \/ Tick
    \/ ForceRefresh
    \/ ClearCache
    \/ \E p \in Procs, isHealthy \in BOOLEAN : HealthCheck(p, isHealthy)
    \/ \E p \in Procs : FetchSucceeds(p)
    \/ \E p \in Procs : FetchFails(p)
    \/ \E p \in Procs : ClearAfterFetch(p)
    \/ \E p \in Procs : Populate(p)
    \/ Len(rows) < MaxServerRows /\ \E d \in ProfileDocs : PutProfile(d)
    \/ Len(rows) < MaxServerRows /\ \E d \in RouteSkillDocs : PostSkill(d)
    \/ Len(rows) < MaxServerRows
       /\ \E id \in SkillIds, b \in SkillPatches : PutSkill(id, b)
    \/ \E id \in SkillIds : DeleteSkillRoute(id)
    \/ Len(rows) < MaxServerRows /\ \E l \in RouteOrderLists(SkillIds) : PutSkillsOrder(l)
    \/ Len(rows) < MaxServerRows /\ \E d \in RouteProjectDocs : PostProject(d)
    \/ Len(rows) < MaxServerRows
       /\ \E id \in ProjIds, b \in RouteProjectPatches : PutProject(id, b)
    \/ \E id \in ProjIds : DeleteProjectRoute(id)
    \/ Len(rows) < MaxServerRows /\ \E l \in RouteOrderLists(ProjIds) : PutProjectsOrder(l)
    \/ \E cacheOk, dbOk, retryOk \in BOOLEAN : GetCachedPortfolioData(cacheOk, dbOk, retryOk)

SpecServer == InitCache /\ [][NextServer]_vars

(***************************************************************************)
(* SpecAccess: the exported functions of the cache module that read or     *)
(* write cache entries (getCachedPortfolioData, updateCacheItem,           *)
(* deleteCacheItem, invalidateCache, initializeCache), with caching on or  *)
(* off, over a store that skill writes change.                             *)
(***************************************************************************)
\* updateCacheItem(key, value) of the module
UpdateCacheItemCall(key, value) ==
    /\ cache' = UpdateCacheItem(enabled, cache, key, value)
    /\ served' = NoResponse
    /\ UNCHANGED <<rows, result, enabled, txs, db, isRefreshing, refreshTimer, runs>>

\* deleteCacheItem(key) of the module
DeleteCacheItemCall(key) ==
    /\ cache' = DeleteCacheItem(enabled, cache, key)
    /\ served' = NoResponse
    /\ UNCHANGED <<rows, result, enabled, txs, db, isRefreshing, refreshTimer, runs>>

NextAccess ==
    \/ AtStartup /\ Initialize
    \/ ForceRefresh
    \/ \E p \in Procs, isHealthy \in BOOLEAN : HealthCheck(p, isHealthy)
    \/ \E p \in Procs : FetchSucceeds(p)
    \/ \E p \in Procs : FetchFails(p)
    \/ \E p \in Procs : ClearAfterFetch(p)
    \/ \E p \in Procs : Populate(p)
    \/ Len(rows) < MaxAccessRows /\ \E d \in RefreshProfileDocs : PutProfile(d)
    \/ Len(rows) < MaxAccessRows /\ \E d \in RouteSkillDocs : PostSkill(d)
    \/ \E id \in SkillIds : DeleteSkillRoute(id)
    \/ \E d \in RouteSkillDocs : UpdateCacheItemCall(SkillKey(d.id), d)
    \/ \E id \in SkillIds : DeleteCacheItemCall(SkillKey(id))
    \/ \E cacheOk, dbOk, retryOk \in BOOLEAN : GetCachedPortfolioData(cacheOk, dbOk, retryOk)

SpecAccess == InitCache /\ [][NextAccess]_vars

(***************************************************************************)
(* SpecLoop: the refresh manager and GET /data at the granularity of the    *)
(* event loop.  A step is what runs between two returns to the event loop:  *)
(* the clear-and-repopulate sequence of a refresh is one step.              *)
(***************************************************************************)
NextLoop ==
    \/ AtStartup /\ Initialize
    \/ Tick
    \/ ForceRefresh
    \/ ClearCache
    \/ \E p \in Procs, isHealthy \in BOOLEAN : HealthCheck(p, isHealthy)
    \/ \E p \in Procs : FetchSucceeds(p)
    \/ \E p \in Procs : FetchFails(p)
    \/ \E p \in Procs : ClearAndPopulate(p)
    \/ Len(rows) < MaxLoopRows /\ \E d \in RefreshProfileDocs : PutProfile(d)
    \/ Len(rows) < MaxLoopRows /\ \E d \in RouteSkillDocs : PostSkill(d)
    \/ \E id \in SkillIds : DeleteSkillRoute(id)
    \/ \E cacheOk, dbOk, retryOk \in BOOLEAN : GetCachedPortfolioData(cacheOk, dbOk, retryOk)

SpecLoop == InitRefresh /\ [][NextLoop]_vars

(***************************************************************************)
(* SpecSkill: createSkill, updateSkill and deleteSkill of the data layer,  *)
(* with the created_at stamp of the documents kept.                        *)
(***************************************************************************)
SkillIds2 == {1, 2}

Stamps == {1, 2}

NewSkillDocs == {[id |-> i, name |-> "a", sort_order |-> 0] : i \in SkillIds2}

\* bodies of an update: plain fields, and fields that name id or created_at
SkillUpdates ==
    {[name |-> "b"], [sort_order |-> 1], [id |-> 2, name |-> "b"],
     [created_at |-> 2]}

NextSkill ==
    \/ /\ Len(rows) < MaxSkillRows
       /\ \E d \in NewSkillDocs, now \in Stamps : CreateSkillAt(d, now)
       /\ UNCHANGED <<cacheVars, txs, db>>
    \/ /\ Len(rows) < MaxSkillRows
       /\ \E id \in SkillIds2, b \in SkillUpdates : UpdateSkill(id, b)
       /\ UNCHANGED <<cacheVars, txs, db>>
    \/ /\ \E id \in SkillIds2 : DeleteSkill(id)
       /\ UNCHANGED <<cacheVars, txs, db>>

SpecSkill == Init /\ [][NextSkill]_vars

(***************************************************************************)
(* SpecShape: the shaping of getPortfolioData() applied to tables of       *)
(* active records drawn from the ones below, in every order: skills with   *)
(* a proficiency, with null and with none; an experience, an achievement   *)
(* of it and one of an experience that is not there; a published and a     *)
(* draft project, a technology of each and an image of a project that is   *)
(* not there.                                                              *)
(***************************************************************************)
ShapeSkill(id, name, order, featured) ==
    [id |-> id, name |-> name, sort_order |-> order, is_featured |-> featured]

ShapeRecords ==
    <<NewRow(SkillKey(1), "skill",
             Merge(ShapeSkill(1, "a", 0, TRUE), [proficiency |-> 3]), 1),
      NewRow(SkillKey(2), "skill", ShapeSkill(2, "b", 0, TRUE), 1),
      NewRow(SkillKey(3), "skill",
             Merge(ShapeSkill(3, "b", 0, TRUE), [proficiency |-> NullProficiency]), 1),
      NewRow(SkillKey(4), "skill",
             Merge(ShapeSkill(4, "a", 1, TRUE), [proficiency |-> 3]), 1),
      NewRow(SkillKey(5), "skill",
             Merge(ShapeSkill(5, "a", 0, FALSE), [proficiency |-> 5]), 1),
      NewRow(ExperienceKey(1), "experience", [id |-> 1, title |-> "a", sort_order |-> 0], 1),
      NewRow(AchievementKey(1), "achievement",
             [id |-> 1, experience_id |-> 1, description |-> "a", sort_order |-> 0], 1),
      NewRow(AchievementKey(2), "achievement",
             [id |-> 2, experience_id |-> 2, description |-> "a", sort_order |-> 0], 1),
      NewRow(ProjectKey(1), "project",
             [id |-> 1, title |-> "a", status |-> "published", sort_order |-> 0], 1),
      NewRow(ProjectKey(2), "project",
             [id |-> 2, title |-> "a", status |-> "draft", sort_order |-> 0], 1),
      NewRow(TechKey(1, "go"), "project_tech", [project_id |-> 1, technology |-> "go"], 1),
      NewRow(TechKey(2, "pg"), "project_tech", [project_id |-> 2, technology |-> "pg"], 1),
      NewRow(<<"project_image", 1>>, "project_image",
             [id |-> 1, project_id |-> 3, image_url |-> "a", sort_order |-> 0], 1)>>

\* the tables: up to MaxShapeRows of the records, no record twice
ShapeTables ==
    {[i \in DOMAIN s |-> ShapeRecords[s[i]]] :
        s \in {t \in SeqsUpTo(DOMAIN ShapeRecords, MaxShapeRows) :
                  \A i, j \in DOMAIN t : t[i] = t[j] => i = j}}

InitShape ==
    /\ rows \in ShapeTables
    /\ result = "ok"
    /\ enabled = FALSE
    /\ CacheConstructed
    /\ txs = [t \in Tx |-> TxIdle]
    /\ db = NoCall

NextShape ==
    \E cacheOk, dbOk, retryOk \in BOOLEAN : GetCachedPortfolioData(cacheOk, dbOk, retryOk)

SpecShape == InitShape /\ [][NextShape]_vars

(***************************************************************************)
(* SpecShapeCache: the tables of SpecShape with caching on: refreshes over *)
(* a healthy store that no one writes to, and GET /data.                   *)
(***************************************************************************)
InitShapeCache ==
    /\ rows \in ShapeTables
    /\ result = "ok"
    /\ enabled = TRUE
    /\ CacheConstructed
    /\ txs = [t \in Tx |-> TxIdle]
    /\ db = NoCall

NextShapeCache ==
    \/ ForceRefresh
    \/ \E p \in Procs : HealthCheck(p, TRUE)
    \/ \E p \in Procs : FetchSucceeds(p)
    \/ \E p \in Procs : ClearAndPopulate(p)
    \/ \E cacheOk, dbOk, retryOk \in BOOLEAN : GetCachedPortfolioData(cacheOk, dbOk, retryOk)

SpecShapeCache == InitShapeCache /\ [][NextShapeCache]_vars

(***************************************************************************)
(* Reading a project with its technologies and images, and the operations  *)
(* on project images.                                                      *)
(***************************************************************************)
ImageKey(id) == <<"project_image", id>>

\* getPortfolioItemsByTypeWithFilter(type, filterFn) is SelectSeq over the
\* values getPortfolioItemsByType returns

GetTechnologiesForProject(r, projectId) ==
    SelectSeq(GetPortfolioItemsByType(r, "project_tech"),
        LAMBDA tech : Has(tech, "project_id") /\ tech.project_id = projectId)

GetImagesForProject(r, projectId) ==
    SelectSeq(GetPortfolioItemsByType(r, "project_image"),
        LAMBDA image : Has(image, "project_id") /\ image.project_id = projectId)

\* { ...project, technologies: ..., images: ... } of getProjectById / getProjectBySlug
WithDetails(r, project) ==
    LET technologies == GetTechnologiesForProject(r, project.id)
        images == GetImagesForProject(r, project.id)
    IN  Merge(project,
              [technologies |-> [i \in DOMAIN technologies |-> technologies[i].technology],
               images |-> SortBySortOrder(images)])

GetProjectById(r, id) ==
    LET project == GetPortfolioItem(r, ProjectKey(id))
    IN  IF project = Null THEN Null ELSE WithDetails(r, project)

GetProjectBySlug(r, slug) ==
    LET projects == SelectSeq(GetPortfolioItemsByType(r, "project"),
                        LAMBDA project : Has(project, "slug") /\ project.slug = slug)
    IN  IF Len(projects) = 0 THEN Null ELSE WithDetails(r, projects[1])

CreateProjectImage(imageData) ==
    SetPortfolioItem(ImageKey(imageData.id), "project_image", imageData)

DeleteProjectImage(id) == DeletePortfolioItem(ImageKey(id))

(***************************************************************************)
(* SpecProj: the operations on projects, their technologies and images.    *)
(* The slug of a project is a function of its id: the route refuses a slug *)
(* that another project has.                                               *)
(***************************************************************************)
ProjIds2 == {1, 2}
ImageIds == {1}

SlugOf(id) == IF id = 1 THEN "demo" ELSE "other"

ImageLists == {<<>>, <<[image_url |-> "u", sort_order |-> 0]>>}

DocTechLists == {<<"go">>, <<"go", "pg">>}

PatchTechLists == {<<>>, <<"go">>, <<"pg">>, <<"go", "go">>}

ProjDocs ==
    {[id |-> i, slug |-> SlugOf(i), sort_order |-> 0, technologies |-> T, images |-> I] :
        i \in ProjIds2, T \in DocTechLists, I \in ImageLists}

ProjPatches ==
    {[technologies |-> T] : T \in PatchTechLists} \cup {[images |-> I] : I \in ImageLists}

ImageDocs ==
    {[id |-> i, project_id |-> p, image_url |-> "v", sort_order |-> 1] :
        i \in ImageIds, p \in ProjIds2}

NextProj ==
    \/ /\ Len(rows) < MaxProjRows /\ \E pd \in ProjDocs : CreateProject(pd)
       /\ UNCHANGED <<cacheVars, txs, db>>
    \/ /\ Len(rows) < MaxProjRows
       /\ \E id \in ProjIds2, pd \in ProjPatches : UpdateProject(id, pd)
       /\ UNCHANGED <<cacheVars, txs, db>>
    \/ /\ \E id \in ProjIds2 : DeleteProject(id)
       /\ UNCHANGED <<cacheVars, txs, db>>
    \/ /\ Len(rows) < MaxProjRows /\ \E im \in ImageDocs : CreateProjectImage(im)
       /\ UNCHANGED <<cacheVars, txs, db>>
    \/ /\ \E i \in ImageIds : DeleteProjectImage(i)
       /\ UNCHANGED <<cacheVars, txs, db>>

SpecProj == Init /\ [][NextProj]_vars

(***************************************************************************)
(* SpecFault: the compound writes when a query may throw. A transactional  *)
(* operation runs its body from Begin or from BeginFailing; deleteExperience *)
(* issues its queries one by one through the pool.                         *)
(***************************************************************************)
Faults == 0 .. MaxFault

Begins(r) == {Begin(r)} \cup {BeginFailing(r, n) : n \in Faults}

\* transaction(callback): COMMIT, or ROLLBACK and rethrow
Transaction(S) ==
    /\ rows' = Committed(rows, S)
    /\ result' = S.err

\* deleteExperience(id) when its query number n + 1 throws: the read of the
\* achievements is query 0, then one deletePortfolioItem per achievement, then
\* the one of the experience
DeleteExperienceFailing(id, n) ==
    LET achievements == GetAchievementsForExperience(rows, id)
    IN  /\ n <= Len(achievements)
        /\ rows' = DeleteAchievements(rows, SubSeq(achievements, 1, n))
        /\ result' = "query_error"

NextFault ==
    \/ /\ Len(rows) < MaxFaultRows
       /\ \E c \in ExperienceCalls(ExpIds, AchIds) : SetPortfolioItem(c[1], c[2], c[3])
       /\ UNCHANGED <<cacheVars, txs, db>>
    \/ /\ Len(rows) < MaxFaultRows
       /\ \E id \in ExpIds, p \in ExperiencePatches, L \in AchievementLists :
              \E S \in Begins(rows) : Transaction(UpdateExperienceTx(S, rows, id, p, L))
       /\ UNCHANGED <<cacheVars, txs, db>>
    \/ /\ \E id \in ExpIds : DeleteExperience(id)
       /\ UNCHANGED <<cacheVars, txs, db>>
    \/ /\ \E id \in ExpIds, n \in Faults : DeleteExperienceFailing(id, n)
       /\ UNCHANGED <<cacheVars, txs, db>>
    \/ /\ Len(rows) < MaxFaultRows
       /\ \E pd \in ProjectDocs, S \in Begins(rows) : Transaction(CreateProjectTx(S, pd))
       /\ UNCHANGED <<cacheVars, txs, db>>
    \/ /\ Len(rows) < MaxFaultRows
       /\ \E id \in ProjIds, pd \in ProjectPatches, S \in Begins(rows) :
              Transaction(UpdateProjectTx(S, rows, id, pd))
       /\ UNCHANGED <<cacheVars, txs, db>>
    \/ /\ \E id \in ProjIds, S \in Begins(rows) : Transaction(DeleteProjectTx(S, id))
       /\ UNCHANGED <<cacheVars, txs, db>>
    \/ /\ Len(rows) < MaxFaultRows
       /\ \E l \in OrderLists(ExpIds), S \in Begins(rows) :
              Transaction(OrderLoop(S, rows, "experience", l))
       /\ UNCHANGED <<cacheVars, txs, db>>
    \/ /\ Len(rows) < MaxFaultRows
       /\ \E l \in OrderLists(ProjIds), S \in Begins(rows) :
              Transaction(OrderLoop(S, rows, "project", l))
       /\ UNCHANGED <<cacheVars, txs, db>>

SpecFault == Init /\ [][NextFault]_vars

(***************************************************************************)
(* Calls that overlap. A call suspends at each await, so the statements of *)
(* two transactions interleave. PostgreSQL runs them at READ COMMITTED: a  *)
(* statement sees the committed rows and what its own transaction wrote;   *)
(* an UPDATE waits for a row another transaction has updated and then      *)
(* looks at that row again; an INSERT waits for a transaction whose        *)
(* uncommitted row occupies the same entry of the unique index. The pool's *)
(* readers (getPortfolioItem and the others) see the committed rows only.  *)
(***************************************************************************)
\* variant: each statement is committed as it runs
AfterStatementAutocommit(r, tx) ==
    [i \in DOMAIN r |-> IF i \in tx.dk THEN [r[i] EXCEPT !.is_active = FALSE] ELSE r[i]]
        \o tx.ins

\* the table the pool reads after a statement of a transaction in progress
AfterStatement(r, tx) == r

\* variant: the rows the transaction inserted, without its deactivations
ViewInsertsOnly(r, tx) == r \o tx.ins

\* the table as the statements of transaction tx see it, and as COMMIT leaves it
View(r, tx) ==
    [i \in DOMAIN r |-> IF i \in tx.dk THEN [r[i] EXCEPT !.is_active = FALSE] ELSE r[i]]
        \o tx.ins

InProgress == {u \in Tx : txs[u].pc # "idle"}

Others(t) == InProgress \ {t}

\* pool.connect(): the first client that is free
FreeTx == CHOOSE t \in Tx : txs[t].pc = "idle" /\ \A u \in Tx : txs[u].pc = "idle" => t <= u

\* the committed rows `UPDATE ... WHERE key = $1 AND is_active = TRUE` is about to change
TargetsOf(r, tx) == {i \in DOMAIN r : r[i].key = tx.key /\ r[i].is_active /\ i \notin tx.dk}

\* a statement of t has run
Statement(t, tx2) ==
    /\ txs' = [txs EXCEPT ![t] = tx2]
    /\ rows' = AfterStatement(rows, tx2)
    /\ UNCHANGED result

\* ROLLBACK, and the error is thrown to the caller
Abort(t, e) ==
    /\ txs' = [txs EXCEPT ![t] = TxIdle]
    /\ rows' = rows
    /\ result' = e

\* setPortfolioItem(key, type, value): BEGIN
BeginSet(k, ty, v) ==
    /\ \E t \in Tx : txs[t].pc = "idle"
    /\ txs' = [txs EXCEPT ![FreeTx] =
                  [TxIdle EXCEPT !.pc = "deactivate", !.op = "set", !.type = ty,
                                 !.key = k, !.value = v]]
    /\ UNCHANGED <<rows, result>>

\* updateSkillsOrder(list) and its two siblings: BEGIN
BeginOrder(ty, lst) ==
    /\ \E t \in Tx : txs[t].pc = "idle"
    /\ txs' = [txs EXCEPT ![FreeTx] =
                  [TxIdle EXCEPT !.pc = IF lst = <<>> THEN "commit" ELSE "read",
                                 !.op = "order", !.type = ty, !.lst = lst, !.lst0 = lst]]
    /\ UNCHANGED <<rows, result>>

\* the entry of the list is done: the next one, or COMMIT
NextEntry(tx) ==
    IF tx.op = "order"
    THEN [tx EXCEPT !.lst = Tail(@), !.pc = IF Tail(tx.lst) = <<>> THEN "commit" ELSE "read"]
    ELSE [tx EXCEPT !.pc = "commit"]

\* const currentSkill = await getPortfolioItem(key): a read through the pool
ReadCurrent(t) ==
    LET tx == txs[t]
        key == <<tx.type, Head(tx.lst).id>>
        current == GetPortfolioItem(rows, key)
    IN  /\ tx.pc = "read"
        /\ Statement(t, IF current = Null THEN NextEntry(tx)
                        ELSE [tx EXCEPT !.pc = "deactivate", !.key = key,
                                 !.value = Merge(current,
                                               [sort_order |-> Head(tx.lst).sort_order])])

\* the other transactions that have deactivated the current version of this
\* key and not yet inserted the new one
Racing(t) ==
    {u \in Others(t) : txs[u].key = txs[t].key /\ txs[u].pc \in {"version", "insert"}}

\* UPDATE portfolio_data SET is_active = FALSE WHERE key = $1 AND is_active = TRUE
Deactivate(t) ==
    LET tx == txs[t]
        I == TargetsOf(rows, tx)
        raced == Racing(t) # {}
        tx2 == IF \E u \in Others(t) : txs[u].dk \cap I # {}
               THEN [tx EXCEPT !.pc = "locked", !.targets = I, !.raced = @ \/ raced]
               ELSE [tx EXCEPT !.pc = "version", !.dk = @ \cup I,
                               !.ins = DeactivateKey(@, tx.key), !.raced = @ \/ raced]
    IN  /\ tx.pc = "deactivate"
        /\ txs' = [u \in Tx |->
                      IF u = t THEN tx2
                      ELSE IF u \in Racing(t) THEN [txs[u] EXCEPT !.raced = TRUE]
                      ELSE txs[u]]
        /\ rows' = AfterStatement(rows, tx2)
        /\ UNCHANGED result

\* the transaction that held the rows has ended: the UPDATE looks at them again
Unlock(t) ==
    LET tx == txs[t]
    IN  /\ tx.pc = "locked"
        /\ \A u \in Others(t) : txs[u].dk \cap tx.targets = {}
        /\ Statement(t, [tx EXCEPT !.pc = "version", !.targets = {},
                            !.dk = @ \cup {i \in tx.targets : rows[i].is_active},
                            !.ins = DeactivateKey(@, tx.key)])

\* SELECT COALESCE(MAX(version), 0) + 1 FROM portfolio_data WHERE key = $1
Version(t) ==
    LET tx == txs[t]
    IN  /\ tx.pc = "version"
        /\ Statement(t, [tx EXCEPT !.pc = "insert",
                                   !.ver = NextVersion(View(rows, tx), tx.key)])

\* INSERT INTO portfolio_data ... VALUES ($1, $2, $3, $4, TRUE)
Insert(t) ==
    LET tx == txs[t]
        row == NewRow(tx.key, tx.type, tx.value, tx.ver)
    IN  /\ tx.pc = "insert"
        /\ \A u \in Others(t) :
              /\ ActiveRowsOf(txs[u].ins, tx.key) = <<>>
              /\ txs[u].dk \cap TargetsOf(rows, tx) = {}
        /\ IF UniqueActiveOK(Append(View(rows, tx), row))
           THEN Statement(t, NextEntry([tx EXCEPT !.ins = Append(@, row)]))
           ELSE Abort(t, "unique_violation")

\* COMMIT
Commit(t) ==
    /\ txs[t].pc = "commit"
    /\ rows' = View(rows, txs[t])
    /\ txs' = [txs EXCEPT ![t] = TxIdle]
    /\ result' = "ok"

(***************************************************************************)
(* SpecRace: setPortfolioItem calls that overlap.                          *)
(***************************************************************************)
RaceCalls ==
    {<<SkillKey(1), "skill", [id |-> 1, name |-> n, sort_order |-> 0]>> : n \in Names}

NextRace ==
    \/ /\ Len(rows) < MaxRaceRows /\ \E c \in RaceCalls : BeginSet(c[1], c[2], c[3])
       /\ UNCHANGED <<cacheVars, db>>
    \/ /\ \E t \in Tx : Deactivate(t)
       /\ UNCHANGED <<cacheVars, db>>
    \/ /\ \E t \in Tx : Unlock(t)
       /\ UNCHANGED <<cacheVars, db>>
    \/ /\ \E t \in Tx : Version(t)
       /\ UNCHANGED <<cacheVars, db>>
    \/ /\ \E t \in Tx : Insert(t)
       /\ UNCHANGED <<cacheVars, db>>
    \/ /\ \E t \in Tx : Commit(t)
       /\ UNCHANGED <<cacheVars, db>>

SpecRace == Init /\ [][NextRace]_vars

(***************************************************************************)
(* SpecReorder: bulk reorders that overlap on disjoint sets of ids. The    *)
(* skills are created by calls that run alone. No call waits for a row of  *)
(* another, so Unlock has no part in it.                                   *)
(***************************************************************************)
ReorderIds == {1, 2}

\* the ids a reorder in progress has written or has still to process
IdsOf(tx) == {tx.lst[i].id : i \in DOMAIN tx.lst} \cup {tx.ins[i].key[2] : i \in DOMAIN tx.ins}

\* the reorder lists of the calls: some ids, each once
ReorderLists ==
    {l \in OrderLists(ReorderIds) :
        l # <<>> /\ \A i, j \in DOMAIN l : l[i].id = l[j].id => i = j}

NextReorder ==
    \/ /\ Len(rows) < MaxReorderRows /\ InProgress = {}
       /\ \E d \in ExperienceDocs(ReorderIds) : BeginSet(SkillKey(d.id), "skill", d)
       /\ UNCHANGED <<cacheVars, db>>
    \/ /\ Len(rows) < MaxReorderRows
       /\ \E l \in ReorderLists :
              /\ \A u \in InProgress :
                    txs[u].op = "order" /\ IdsOf(txs[u]) \cap {l[i].id : i \in DOMAIN l} = {}
              /\ BeginOrder("skill", l)
       /\ UNCHANGED <<cacheVars, db>>
    \/ /\ \E t \in Tx : ReadCurrent(t)
       /\ UNCHANGED <<cacheVars, db>>
    \/ /\ \E t \in Tx : Deactivate(t)
       /\ UNCHANGED <<cacheVars, db>>
    \/ /\ \E t \in Tx : Version(t)
       /\ UNCHANGED <<cacheVars, db>>
    \/ /\ \E t \in Tx : Insert(t)
       /\ UNCHANGED <<cacheVars, db>>
    \/ /\ \E t \in Tx : Commit(t)
       /\ UNCHANGED <<cacheVars, db>>

SpecReorder == Init /\ [][NextReorder]_vars

(***************************************************************************)
(* SpecLost: updateSkill overlapping updateSkillsOrder on the same skill.  *)
(***************************************************************************)
\* updateSkill(id, skillData): the current document is read through the pool,
\* then setPortfolioItem opens its transaction with the merged document
BeginUpdateSkill(id, skillData) ==
    LET currentSkill == GetPortfolioItem(rows, SkillKey(id))
    IN  IF currentSkill = Null
        THEN /\ result' = "not_found"
             /\ UNCHANGED <<rows, txs>>
        ELSE BeginSet(SkillKey(id), "skill",
                 WithCreatedAt(Merge(Merge(currentSkill, skillData), [id |-> id]),
                               currentSkill))

NextLost ==
    \/ /\ rows = <<>> /\ InProgress = {}
       /\ BeginSet(SkillKey(1), "skill", [id |-> 1, name |-> "a", sort_order |-> 0])
       /\ UNCHANGED <<cacheVars, db>>
    \/ /\ Len(rows) < MaxLostRows
       /\ \E n \in Names : BeginUpdateSkill(1, [name |-> n])
       /\ UNCHANGED <<cacheVars, db>>
    \/ /\ Len(rows) < MaxLostRows
       /\ \E o \in 1..2 : BeginOrder("skill", <<[id |-> 1, sort_order |-> o]>>)
       /\ UNCHANGED <<cacheVars, db>>
    \/ /\ \E t \in Tx : ReadCurrent(t)
       /\ UNCHANGED <<cacheVars, db>>
    \/ /\ \E t \in Tx : Deactivate(t)
       /\ UNCHANGED <<cacheVars, db>>
    \/ /\ \E t \in Tx : Unlock(t)
       /\ UNCHANGED <<cacheVars, db>>
    \/ /\ \E t \in Tx : Version(t)
       /\ UNCHANGED <<cacheVars, db>>
    \/ /\ \E t \in Tx : Insert(t)
       /\ UNCHANGED <<cacheVars, db>>
    \/ /\ \E t \in Tx : Commit(t)
       /\ UNCHANGED <<cacheVars, db>>

SpecLost == Init /\ [][NextLost]_vars

(***************************************************************************)
(* query() and transaction() of database.js.  An error is "conn" when it   *)
(* passes the connection-class test of the catch blocks (message or code   *)
(* among the listed ones), "other" when it does not, and "release" for the *)
(* error the pool throws on a second release() of a client, which does not *)
(* pass the test either.                                                   *)
(***************************************************************************)
maxRetriesDb == 2

Errors == {"conn", "other"}

Frame(rc, pc) == [rc |-> rc, pc |-> pc, client |-> 0]

Top(d) == d.stack[Len(d.stack)]

SetPc(d, pc) == [d EXCEPT !.stack[Len(d.stack)].pc = pc]

Push(d, f) == [d EXCEPT !.stack = Append(@, f)]

Pop(d) == [d EXCEPT !.stack = SubSeq(@, 1, Len(@) - 1)]

\* client = await pool.connect()
Acquire(d) ==
    [d EXCEPT !.releases = Append(@, 0),
              !.stack[Len(d.stack)].client = Len(d.releases) + 1]

\* client.release() or client.release(true)
Release(d, c) == [d EXCEPT !.releases[c] = @ + 1]

\* the release() about to be called on c throws
ReleaseThrows(d, c) == d.throws /\ d.releases[c] >= 1

\* an awaited promise of the environment rejected with e
Raised(d, e) ==
    [d EXCEPT !.last = e,
              !.otherAt = IF e = "other" /\ @ = -1 THEN d.execs ELSE @]

Outcome(r) == IF r = "ok" THEN [status |-> "ok"] ELSE [status |-> "error", err |-> r]

\* const shouldRetry = retryCount < maxRetries && (connection-class error)
ShouldRetry(rc, e) == rc < maxRetriesDb /\ e = "conn"

RECURSIVE QuerySettle(_, _)
\* the catch block of query(): sleep and call query(text, params, retryCount + 1),
\* or throw the error
QueryCatch(d, e) ==
    IF ShouldRetry(Top(d).rc, e)
    THEN Push(SetPc(d, "await120"), Frame(Top(d).rc + 1, "exec"))
    ELSE QuerySettle(d, e)

\* the invocation on top returns (r = "ok") or throws r; what its caller, awaiting
\* it at line 76, 82 or 120, does with that
QuerySettle(d, r) ==
    LET d1 == Pop(d) IN
    IF d1.stack = <<>> THEN [d1 EXCEPT !.out = Outcome(r)]
    ELSE LET f == Top(d1) IN
         IF r = "ok" \/ f.pc = "await120" THEN QuerySettle(d1, r)
         ELSE IF f.pc = "await76"
         THEN \* catch (testError): testClient.release(true), then query(text, params, 1)
              IF ReleaseThrows(d1, f.client)
              THEN QueryCatch(Release(d1, f.client), "release")
              ELSE Push(SetPc(Release(d1, f.client), "await82"), Frame(1, "exec"))
         ELSE QueryCatch(d1, r)

RECURSIVE TransactionSettle(_, _)
\* the finally block of transaction(), then the invocation on top ends with r
TransactionFinally(d, r) ==
    LET c == Top(d).client IN
    IF c = 0 THEN TransactionSettle(d, r)
    ELSE IF ReleaseThrows(d, c) THEN TransactionSettle(Release(d, c), "release")
    ELSE TransactionSettle(Release(d, c), r)

\* the catch block of transaction(): ROLLBACK if there is a client (its own
\* error is swallowed), then release(true), sleep and the recursive call, or throw
TransactionCatch(d, e) ==
    LET c == Top(d).client
        d1 == IF c # 0 THEN [d EXCEPT !.log = Append(@, "ROLLBACK")] ELSE d
    IN  IF ShouldRetry(Top(d).rc, e)
        THEN IF c = 0
             THEN Push(SetPc(d1, "await178"), Frame(Top(d).rc + 1, "connect"))
             ELSE IF ReleaseThrows(d1, c)
             THEN TransactionFinally(Release(d1, c), "release")
             ELSE Push(SetPc(Release(d1, c), "await178"), Frame(Top(d).rc + 1, "connect"))
        ELSE TransactionFinally(d1, e)

\* the invocation on top has ended with r; its caller awaits it at line 145
\* (inside the try) or at line 178 (inside the catch)
TransactionSettle(d, r) ==
    LET d1 == Pop(d) IN
    IF d1.stack = <<>> THEN [d1 EXCEPT !.out = Outcome(r)]
    ELSE IF r = "ok" \/ Top(d1).pc = "await178" THEN TransactionFinally(d1, r)
    ELSE TransactionCatch(d1, r)

Running(fn, pc) == db.fn = fn /\ db.stack # <<>> /\ Top(db).pc = pc

DbStep(d) ==
    /\ db' = d
    /\ UNCHANGED <<rows, result, cacheVars, txs>>

\* a caller invokes query(text, params): retryCount = 0, pool.connect() for the test
CallQuery ==
    /\ db.stack = <<>>
    /\ DbStep(Push([NoCallWith(db.throws) EXCEPT !.fn = "query"], Frame(0, "connect")))

\* a caller invokes transaction(callback)
CallTransaction ==
    /\ db.stack = <<>>
    /\ DbStep(Push([NoCallWith(db.throws) EXCEPT !.fn = "transaction"], Frame(0, "connect")))

\* pool.connect() settles
PoolConnect(r) ==
    /\ db.stack # <<>> /\ Top(db).pc = "connect"
    /\ DbStep(IF r = "ok" THEN SetPc(Acquire(db), "test")
              ELSE IF db.fn = "query" THEN QueryCatch(Raised(db, r), r)
              ELSE TransactionCatch(Raised(db, r), r))

\* isConnectionHealthy(testClient) of query() settles
QueryTest(isHealthy) ==
    /\ Running("query", "test")
    /\ DbStep(IF isHealthy THEN SetPc(Release(db, Top(db).client), "exec")
              ELSE Push(SetPc(Release(db, Top(db).client), "await76"), Frame(1, "exec")))

\* pool.query(text, params) settles
QueryExec(r) ==
    /\ Running("query", "exec")
    /\ LET d == [db EXCEPT !.execs = @ + 1] IN
       DbStep(IF r = "ok" THEN QuerySettle(d, "ok") ELSE QueryCatch(Raised(d, r), r))

\* isConnectionHealthy(client) of transaction() settles
TransactionTest(isHealthy) ==
    /\ Running("transaction", "test")
    /\ DbStep(IF ~isHealthy /\ Top(db).rc < maxRetriesDb
              THEN Push(SetPc(Release(db, Top(db).client), "await145"),
                        Frame(Top(db).rc + 1, "connect"))
              ELSE SetPc(db, "begin"))

\* client.query('BEGIN') settles
TransactionBegin(r) ==
    /\ Running("transaction", "begin")
    /\ DbStep(IF r = "ok" THEN SetPc([db EXCEPT !.log = Append(@, "BEGIN")], "callback")
              ELSE TransactionCatch(Raised(db, r), r))

\* callback(client) settles
TransactionCallback(r) ==
    /\ Running("transaction", "callback")
    /\ LET d == [db EXCEPT !.execs = @ + 1] IN
       DbStep(IF r = "ok" THEN SetPc(d, "commit") ELSE TransactionCatch(Raised(d, r), r))

\* client.query('COMMIT') settles
TransactionCommit(r) ==
    /\ Running("transaction", "commit")
    /\ DbStep(IF r = "ok" THEN TransactionFinally([db EXCEPT !.log = Append(@, "COMMIT")], "ok")
              ELSE TransactionCatch(Raised(db, r), r))

(***************************************************************************)
(* SpecDb: calls of query() and transaction(), one at a time, against a    *)
(* pool and a server that may fail at every await.                         *)
(***************************************************************************)
InitDb ==
    /\ rows = <<>>
    /\ result = "ok"
    /\ enabled = FALSE
    /\ CacheConstructed
    /\ txs = [t \in Tx |-> TxIdle]
    /\ db \in {NoCallWith(b) : b \in BOOLEAN}

NextDb ==
    \/ CallQuery
    \/ CallTransaction
    \/ \E r \in {"ok"} \cup Errors : PoolConnect(r)
    \/ \E isHealthy \in BOOLEAN : QueryTest(isHealthy)
    \/ \E r \in {"ok"} \cup Errors : QueryExec(r)
    \/ \E isHealthy \in BOOLEAN : TransactionTest(isHealthy)
    \/ \E r \in {"ok"} \cup Errors : TransactionBegin(r)
    \/ \E r \in {"ok"} \cup Errors : TransactionCallback(r)
    \/ \E r \in {"ok"} \cup Errors : TransactionCommit(r)

SpecDb == InitDb /\ [][NextDb]_vars

(***************************************************************************)
(* Properties of the store.                                                *)
(***************************************************************************)
KeysIn(r) == {r[i].key : i \in DOMAIN r}

ActiveCount(r, k) == Cardinality({i \in DOMAIN r : r[i].key = k /\ r[i].is_active})

VersionsOf(r, k) == {r[i].version : i \in {j \in DOMAIN r : r[j].key = k}}

\* the records of r and r2 are the same up to their is_active flags
SameRecordsUpToActive(r, r2) ==
    /\ Len(r2) = Len(r)
    /\ \A i \in DOMAIN r : r2[i] = [r[i] EXCEPT !.is_active = r2[i].is_active]

\* C1: after any sequence of completed store operations every key has at most
\* one record with is_active = TRUE.
C1_AtMostOneActive == \A k \in KeysIn(rows) : ActiveCount(rows, k) <= 1

\* a write that would have given a key a second active record was refused, and
\* a key with several records has one active record
C1_Witness ==
    /\ result = "unique_violation"
    /\ \E k \in KeysIn(rows) : Len(RowsOf(rows, k)) >= 2 /\ ActiveCount(rows, k) = 1

\* C2: on a table written by setPortfolioItem calls only, the n-th call on a key
\* makes getPortfolioItem return the value just written, leaves exactly one
\* active record, and the history lists n records with versions n, n-1, ..., 1,
\* the older ones unchanged and inactive.
C2_SuccessiveSets ==
    [][\A c \in SetCalls :
          (Len(rows') = Len(rows) + 1 /\ SetPortfolioItem(c[1], c[2], c[3])) =>
              LET k == c[1]
                  n == Len(RowsOf(rows, k)) + 1
                  old == GetPortfolioItemHistory(rows, k)
                  h == GetPortfolioItemHistory(rows', k)
              IN  /\ result' = "ok"
                  /\ GetPortfolioItem(rows', k) = c[3]
                  /\ ActiveCount(rows', k) = 1
                  /\ Len(h) = n
                  /\ \A i \in 1 .. n : h[i].version = n + 1 - i
                  /\ h[1].value = c[3] /\ h[1].is_active
                  /\ \A i \in 2 .. n : h[i] = [old[i - 1] EXCEPT !.is_active = FALSE]
      ]_vars

\* two writes of different values to one key: versions {1, 2}, the second active
C2_Witness ==
    /\ Len(RowsOf(rows, ProfileKey)) = 2
    /\ VersionsOf(rows, ProfileKey) = {1, 2}
    /\ GetPortfolioItem(rows, ProfileKey) = [name |-> "b"]
    /\ \E i \in DOMAIN rows :
           rows[i].key = ProfileKey /\ rows[i].version = 1
           /\ rows[i].value = [name |-> "a"] /\ ~rows[i].is_active

\* C3: for every key the version numbers of its records are pairwise distinct
\* and form exactly the set 1..n, whichever operation wrote the records.
C3_VersionsGapless ==
    \A k \in KeysIn(rows) :
        /\ VersionsOf(rows, k) = 1 .. Len(RowsOf(rows, k))
        /\ \A i, j \in DOMAIN rows :
               (rows[i].key = k /\ rows[j].key = k /\ rows[i].version = rows[j].version)
                   => i = j

\* C4: on a key whose records carry the versions 1..n, rollbackPortfolioItem(k, i)
\* with 1 <= i <= n succeeds, makes getPortfolioItem return the value stored in
\* version i, leaves exactly one record active, adds no record and changes no
\* stored key, type, value or version.
C4_RollbackRoundTrip ==
    [][\A k \in KeysIn(rows) :
          \A i \in 1 .. Len(RowsOf(rows, k)) :
              ( /\ Len(rows') = Len(rows)
                /\ VersionsOf(rows, k) = 1 .. Len(RowsOf(rows, k))
                /\ RollbackPortfolioItem(k, i) ) =>
                  /\ result' = "ok"
                  /\ \E j \in DOMAIN rows :
                         /\ rows[j].key = k /\ rows[j].version = i
                         /\ GetPortfolioItem(rows', k) = rows[j].value
                  /\ ActiveCount(rows', k) = 1
                  /\ SameRecordsUpToActive(rows, rows')
      ]_vars

\* set(v1), set(v2), rollback(k, 1): version 1 is the active one again
C4_Witness ==
    /\ result = "ok"
    /\ VersionsOf(rows, ProfileKey) = {1, 2}
    /\ \E i, j \in DOMAIN rows :
           /\ rows[i].key = ProfileKey /\ rows[i].version = 1 /\ rows[i].is_active
           /\ rows[j].key = ProfileKey /\ rows[j].version = 2 /\ ~rows[j].is_active
           /\ rows[i].value # rows[j].value
           /\ GetPortfolioItem(rows, ProfileKey) = rows[i].value

(***************************************************************************)
(* Properties of the cache and of its refresh manager.                     *)
(***************************************************************************)
\* C5: fetch-then-swap.  A step of a refresh execution changes the cache only
\* when the fetch of its current attempt has succeeded (the execution is past
\* the fetch, clearing or populating); that state is entered only from the
\* fetch of the attempt, with the items the store held; a failed fetch attempt,
\* the last one included, leaves the cache contents as they were.
C5_FetchThenSwap ==
    [][\A p \in Procs :
          /\ (runs'[p] # runs[p] /\ cache' # cache) =>
                 runs[p].pc \in {"fetched", "populate"}
          /\ (runs'[p].pc = "fetched" /\ runs'[p] # runs[p]) =>
                 /\ runs[p].pc = "fetch"
                 /\ runs'[p].items = DbGetAllItems(rows)
          /\ (runs[p].pc = "fetch" /\ runs'[p] # runs[p] /\ runs'[p].pc # "fetched") =>
                 /\ cache' = cache
                 /\ \/ runs'[p].pc = "fetch" /\ runs'[p].attempt = runs[p].attempt + 1
                    \/ runs'[p].pc = "idle" /\ runs[p].attempt = maxRetries
                       /\ result' = "all_attempts_failed"
      ]_vars

\* a refresh whose three fetch attempts failed has returned, the cache still
\* holds items and they are not the ones the store holds now
C5_Witness ==
    /\ result = "all_attempts_failed"
    /\ InFlight(runs) = {}
    /\ Len(cache) > 0
    /\ ProcessPortfolioItems(cache) # FetchAndProcessFromDB(rows)

\* C6: when the health check at the start of refreshCacheWithRetry fails, the
\* execution returns without fetching (it never awaits getAllItems) and the
\* cache contents are identical before and after.
C6_UnhealthyKeepsCache ==
    [][\A p \in Procs :
          HealthCheck(p, FALSE) =>
              /\ cache' = cache
              /\ runs'[p].pc = "idle"
              /\ result' = "unhealthy"
              /\ ~isRefreshing'
      ]_vars

\* a refresh was aborted by the health check while the cache held items
C6_Witness ==
    /\ result = "unhealthy"
    /\ InFlight(runs) = {}
    /\ Len(cache) > 0

\* C7: in every reachable state at most one execution of the refresh body is
\* in progress, whatever the interleaving of initialize(), timer ticks,
\* forceRefresh() and stop().
C7_AtMostOneRefresh == Cardinality(InFlight(runs)) <= 1

\* C8: with caching disabled, a getPortfolioData() call that returns data
\* returns the shaping of what the store holds during the call, so the first
\* call after a committed write reflects it, whatever the cache holds.
C8_DisabledReadsStore ==
    [][\A cacheOk, dbOk, retryOk \in BOOLEAN :
          (~enabled /\ GetCachedPortfolioData(cacheOk, dbOk, retryOk)) =>
              served' = (IF dbOk \/ retryOk THEN OkResponse(FetchAndProcessFromDB(rows))
                         ELSE ErrorResponse)
      ]_vars

\* caching is disabled, the cache holds items left by a forced refresh that
\* differ from the store, and the response served is the store's
C8_Witness ==
    /\ ~enabled
    /\ Len(cache) > 0
    /\ served = OkResponse(FetchAndProcessFromDB(rows))
    /\ served # OkResponse(ProcessPortfolioItems(CacheGetAllItems(cache, CachePrefix)))
    /\ served.data.profile # Null

\* C9: with caching enabled, a successful write of a route leaves either a
\* whole-cache refresh under way or a cache from which the next
\* getPortfolioData() returns what the store holds after the write.
C9_WriteReachesCache ==
    [][(enabled /\ rows' # rows /\ result' = "ok") =>
          \/ InFlight(runs') # {}
          \/ GetPortfolioData(enabled', cache', rows') = FetchAndProcessFromDB(rows')
      ]_vars

\* the active achievement rows attached to experience id, in insertion order
ActiveAchievementsOf(r, id) ==
    SelectSeq(r, LAMBDA x : x.type = "achievement" /\ x.is_active
                            /\ x.value.experience_id = id)

\* C10: after a successful updateExperienceWithAchievements(id, patch, L) the
\* active achievement records with experience_id = id are exactly those built
\* from L (none when L is empty), and the experience has one new active version
\* carrying the old value overlaid with the patch.
C10_ReplaceAllAchievements ==
    [][\A id \in ExpIds2, p \in ExperiencePatches, L \in AchievementLists :
          ( /\ result' = "ok"
            /\ Len(rows') = Len(rows) + 1 + Len(L)
            /\ UpdateExperienceWithAchievements(id, p, L) ) =>
              LET act == ActiveAchievementsOf(rows', id)
                  cur == ActiveRowsOf(rows, ExperienceKey(id))
                  new == ActiveRowsOf(rows', ExperienceKey(id))
              IN  /\ Len(act) = Len(L)
                  /\ \A i \in DOMAIN L :
                         /\ act[i].value.description = L[i].description
                         /\ act[i].value.sort_order =
                                (IF L[i].sort_order # 0 THEN L[i].sort_order ELSE i - 1)
                         /\ L[i].id # NoId =>
                                (act[i].value.id = L[i].id
                                 /\ act[i].key = AchievementKey(L[i].id))
                  /\ Len(cur) = 1 /\ Len(new) = 1
                  /\ new[1].version > cur[1].version
                  /\ Len(RowsOf(rows', ExperienceKey(id)))
                         = Len(RowsOf(rows, ExperienceKey(id))) + 1
                  /\ new[1].value.id = id
                  /\ \A f \in DOMAIN p : f # "id" => new[1].value[f] = p[f]
                  /\ \A f \in DOMAIN cur[1].value :
                         (f \notin DOMAIN p /\ f # "id") => new[1].value[f] = cur[1].value[f]
      ]_vars

\* an experience whose patched version is active, that had achievements before
\* the update and has none after it
C10_Witness ==
    /\ result = "ok"
    /\ \E i \in DOMAIN rows :
           /\ rows[i].key = ExperienceKey(1) /\ rows[i].is_active
           /\ rows[i].version = 2 /\ rows[i].value.title = "b"
           /\ Cardinality({j \in 1 .. (i - 1) : rows[j].type = "achievement"
                               /\ rows[j].value.experience_id = 1}) >= 2
           /\ Len(rows) = i
    /\ ActiveAchievementsOf(rows, 1) = <<>>

\* the elements of a list
Elems(s) == {s[i] : i \in DOMAIN s}

\* C11: replace-all for technologies. A successful updateProject(id,
\* {technologies: T}) leaves getProjectById and getProjectBySlug returning a
\* technologies list with exactly the elements of T, each once; every
\* project_tech record of the project that is not in T is inactive, and each
\* element of T has exactly one active record, also one the project had before.
C11_ReplaceAllTechnologies ==
    [][\A id \in ProjIds2, T \in PatchTechLists :
          (rows' # rows /\ result' = "ok" /\ UpdateProject(id, [technologies |-> T])) =>
              LET got == GetProjectById(rows', id).technologies
              IN  /\ Elems(got) = Elems(T)
                  /\ Len(got) = Cardinality(Elems(T))
                  /\ GetProjectBySlug(rows', SlugOf(id)).technologies = got
                  /\ \A i \in DOMAIN rows' :
                         (/\ rows'[i].type = "project_tech"
                          /\ rows'[i].value.project_id = id
                          /\ rows'[i].value.technology \notin Elems(T))
                             => ~rows'[i].is_active
                  /\ \A t \in Elems(T) : ActiveCount(rows', TechKey(id, t)) = 1
      ]_vars

\* project 1 was created with go and pg and then updated to go alone
C11_Witness ==
    /\ result = "ok"
    /\ GetProjectById(rows, 1) # Null
    /\ GetProjectById(rows, 1).technologies = <<"go">>
    /\ GetProjectBySlug(rows, "demo").technologies = <<"go">>
    /\ Len(RowsOf(rows, TechKey(1, "go"))) = 2
    /\ Len(RowsOf(rows, TechKey(1, "pg"))) = 1
    /\ ActiveCount(rows, TechKey(1, "pg")) = 0
    /\ Len(RowsOf(rows, ProjectKey(1))) = 2

\* C12: replace-all for images. Creating or updating a project with an images
\* list I deactivates every project_image record the project had and inserts
\* one active project_image record per element of I, so that reading the
\* project returns exactly I, ordered by sort_order.
C12_ReplaceAllImages ==
    [][\A id \in ProjIds2, I \in ImageLists :
          (/\ rows' # rows
           /\ result' = "ok"
           /\ \/ UpdateProject(id, [images |-> I])
              \/ \E pd \in ProjDocs : pd.id = id /\ pd.images = I /\ CreateProject(pd)) =>
              LET got == GetProjectById(rows', id).images
                  want == SortBySortOrder(I)
              IN  /\ Len(got) = Len(want)
                  /\ \A i \in DOMAIN want :
                         /\ got[i].image_url = want[i].image_url
                         /\ got[i].sort_order = want[i].sort_order
                  /\ Cardinality({i \in DOMAIN rows' :
                         /\ rows'[i].type = "project_image"
                         /\ rows'[i].value.project_id = id
                         /\ rows'[i].is_active}) = Len(I)
      ]_vars

\* C13: every compound write is all-or-nothing. A call of
\* updateExperienceWithAchievements, createProject, updateProject,
\* deleteProject, deleteExperience or a bulk reorder in which a step fails
\* reports the failure and leaves the records of the store and their is_active
\* flags exactly as they were before the call.
C13_AllOrNothing == [][result' # "ok" => rows' = rows]_vars

\* C14: delete cascade. After a deleteExperience(id) that completed, the
\* experience record is inactive and no active achievement record with
\* experience_id = id remains, whichever path created the achievement: also
\* one that updateExperienceWithAchievements inserted from a list entry
\* without id.
C14_DeleteCascade ==
    [][\A id \in ExpIds2 :
          (result' = "ok" /\ DeleteExperience(id)) =>
              /\ ActiveCount(rows', ExperienceKey(id)) = 0
              /\ ActiveAchievementsOf(rows', id) = <<>>
      ]_vars

\* the entries of a reorder list whose key has an active record in r
ExistingEntries(r, ty, lst) ==
    {e \in Elems(lst) : GetPortfolioItem(r, <<ty, e.id>>) # Null}

\* C15: a bulk reorder is applied as one atomic unit. While the call is in
\* progress the readers of the pool see every entry of its list as it was
\* before the call; when it commits they see the new sort_order of every
\* existing entry at once; and at no time is the key of an entry without an
\* active record.
C15_ReorderAtomic ==
    [][\A t \in Tx :
          (txs[t].op = "order" /\ txs'[t] # txs[t]) =>
              LET tx == txs[t]
                  existing == ExistingEntries(rows, tx.type, tx.lst0)
              IN  /\ \A e \in existing : ActiveCount(rows', <<tx.type, e.id>>) = 1
                  /\ IF txs'[t].pc # "idle"
                     THEN \A e \in Elems(tx.lst0) :
                              GetPortfolioItem(rows', <<tx.type, e.id>>)
                                  = GetPortfolioItem(rows, <<tx.type, e.id>>)
                     ELSE \/ rows' = rows
                          \/ \A e \in existing :
                                 GetPortfolioItem(rows', <<tx.type, e.id>>).sort_order
                                     = e.sort_order
      ]_vars

\* a reorder of skills 1 and 2 has written the new version of the first and
\* not yet that of the second; the pool still reads both as they were
C15_Witness ==
    \E t \in Tx :
        /\ txs[t].op = "order"
        /\ Len(txs[t].lst0) = 2 /\ Len(txs[t].lst) = 1 /\ Len(txs[t].ins) = 1
        /\ txs[t].lst0[1].id # txs[t].lst0[2].id
        /\ txs[t].pc = "insert"
        /\ \A e \in Elems(txs[t].lst0) :
              /\ GetPortfolioItem(rows, SkillKey(e.id)) # Null
              /\ GetPortfolioItem(rows, SkillKey(e.id)).sort_order # e.sort_order

\* C16: two bulk reorders that run concurrently on disjoint sets of existing
\* ids both take full effect. Under every interleaving of their statements
\* each call commits; when it does, every existing id of its list has exactly
\* one active record, with the sort_order requested for it, and the active
\* record of every other key is the one it was, so that what the other call
\* has committed is not lost.
C16_DisjointReorders ==
    [][\A t \in Tx :
          (txs[t].op = "order" /\ txs[t].pc # "idle" /\ txs'[t].pc = "idle") =>
              LET tx == txs[t]
                  existing == ExistingEntries(rows, tx.type, tx.lst0)
              IN  /\ result' = "ok"
                  /\ \A e \in existing :
                        /\ ActiveCount(rows', <<tx.type, e.id>>) = 1
                        /\ GetPortfolioItem(rows', <<tx.type, e.id>>).sort_order
                               = e.sort_order
                  /\ \A k \in KeysIn(rows) \ {<<tx.type, e.id>> : e \in Elems(tx.lst0)} :
                        /\ ActiveCount(rows', k) = ActiveCount(rows, k)
                        /\ GetPortfolioItem(rows', k) = GetPortfolioItem(rows, k)
      ]_vars

\* two reorders in progress at once, one of skill 1 and one of skill 2: the
\* first has inserted its new version and is about to commit, the second has
\* written its own
C16_Witness ==
    \E t, u \in Tx :
        /\ t # u
        /\ txs[t].op = "order" /\ txs[u].op = "order"
        /\ txs[t].pc = "commit" /\ Len(txs[t].ins) = 1
        /\ txs[u].pc = "commit" /\ Len(txs[u].ins) = 1
        /\ txs[t].ins[1].key # txs[u].ins[1].key
        /\ \A i \in ReorderIds : GetPortfolioItem(rows, SkillKey(i)).sort_order = 0

\* two records of key k carry the same version number
DuplicateVersions(r, k) == Cardinality(VersionsOf(r, k)) < Len(RowsOf(r, k))

C18_RollbackUnknownVersion ==
    [][\A k \in AccessorKeys, ver \in 1 .. MaxAccRows :
          (ver \notin VersionsOf(rows, k) /\ RollbackPortfolioItem(k, ver)) =>
              /\ result' = "version_not_found"
              /\ rows' = rows
              /\ ActiveRowsOf(rows', k) = ActiveRowsOf(rows, k)
      ]_vars

\* a rollback to a missing version has just failed on a key with an active record
C18_Witness ==
    /\ result = "version_not_found"
    /\ \E k \in AccessorKeys : ActiveCount(rows, k) = 1

\* how many entries of list s equal v
CountOf(s, v) == Cardinality({i \in DOMAIN s : s[i] = v})

\* C19: getPortfolioItemsByType(t) returns the values of exactly the records
\* of type t that are active at the time of the call, each once; a record
\* deactivated by a delete, by a newer version or by a replace-all does not
\* appear, even when it is the last row written for its key.
C19_ListsActiveOnly ==
    \A t \in {rows[i].type : i \in DOMAIN rows} :
        LET got == GetPortfolioItemsByType(rows, t)
        IN  \A v \in {rows[i].value : i \in DOMAIN rows} :
                CountOf(got, v)
                    = Cardinality({i \in DOMAIN rows :
                          rows[i].type = t /\ rows[i].is_active /\ rows[i].value = v})

\* the last row written for the profile is a deactivated one, and listing the
\* type returns nothing
C19_Witness ==
    /\ Len(rows) >= 2
    /\ rows[Len(rows)].key = ProfileKey
    /\ ~rows[Len(rows)].is_active
    /\ ActiveCount(rows, ProfileKey) = 0
    /\ GetPortfolioItemsByType(rows, "profile") = <<>>

\* C20: no operation of the data layer removes a record or changes the key,
\* type, value or version of an existing one; the only change made to an
\* existing record is its is_active flag. The history of every key therefore
\* only grows, and every earlier version stays in it.
C20_RecordsOnlyChangeActive ==
    [][/\ Len(rows') >= Len(rows)
       /\ \A i \in DOMAIN rows :
             rows'[i] = [rows[i] EXCEPT !.is_active = rows'[i].is_active]
       /\ \A k \in KeysIn(rows) :
             /\ Len(GetPortfolioItemHistory(rows', k)) >= Len(GetPortfolioItemHistory(rows, k))
             /\ VersionsOf(rows, k) \subseteq VersionsOf(rows', k)
      ]_vars

\* skill 1 has been written twice and then deleted: both versions are still
\* in its history
C20_Witness ==
    /\ Len(GetPortfolioItemHistory(rows, SkillKey(1))) >= 2
    /\ ActiveCount(rows, SkillKey(1)) = 0

\* C21: with caching enabled and at least one entry under the prefix
\* 'portfolio_data:', getPortfolioData() answers with the shaping of the cache
\* entries alone: the response is the same, and is a success, whether or not
\* the store answers during the call.
C21_CacheAloneServes ==
    [][\A dbOk, retryOk \in BOOLEAN :
          (/\ enabled
           /\ served'.status # "none"
           /\ Len(CacheGetAllItems(cache, CachePrefix)) > 0
           /\ GetCachedPortfolioData(TRUE, dbOk, retryOk)) =>
              served' = OkResponse(ProcessPortfolioItems(
                                       CacheGetAllItems(cache, CachePrefix)))
      ]_vars

\* a call was answered from a cache that is stale: the response is the shaping
\* of the cache entries and differs from what the store holds
C21_Witness ==
    /\ enabled
    /\ Len(CacheGetAllItems(cache, CachePrefix)) > 0
    /\ served = OkResponse(ProcessPortfolioItems(CacheGetAllItems(cache, CachePrefix)))
    /\ served # OkResponse(FetchAndProcessFromDB(rows))
    /\ served.data.skills # <<>>

\* C22: getPortfolioData() hands an error to its caller only when a store read
\* fails: when the reading of the cache throws, the call is answered from a
\* full store read, and the caller sees an error only if the store read of the
\* catch block fails too, after a failure in the try block (of the store read
\* or, with caching enabled, of the cache read).
C22_ErrorOnlyFromStore ==
    [][\A cacheOk, dbOk, retryOk \in BOOLEAN :
          (served'.status # "none" /\ GetCachedPortfolioData(cacheOk, dbOk, retryOk)) =>
              /\ served' = ErrorResponse =>
                     (~retryOk /\ (~dbOk \/ (enabled /\ ~cacheOk)))
              /\ (enabled /\ ~cacheOk /\ retryOk) =>
                     served' = OkResponse(FetchAndProcessFromDB(rows))
      ]_vars

\* with caching enabled and a cache that holds stale entries, a call was
\* answered from the store
C22_Witness ==
    /\ enabled
    /\ Len(CacheGetAllItems(cache, CachePrefix)) > 0
    /\ served = OkResponse(FetchAndProcessFromDB(rows))
    /\ served # OkResponse(ProcessPortfolioItems(CacheGetAllItems(cache, CachePrefix)))

\* C23: when caching is disabled the cache is bypassed entirely: whatever
\* calls of initialize(), getPortfolioData(), updateCacheItem(),
\* deleteCacheItem() and forceRefresh() / invalidateCache() have been made, the
\* cache holds no entry and no periodic timer is armed.
C23_DisabledCacheStaysEmpty == ~enabled => (cache = <<>> /\ refreshTimer = NoTimer)

EntriesOf(fresh, n) ==
    [i \in 1 .. n |-> [key |-> CacheKey(fresh[i].key), value |-> fresh[i].value]]

\* the cache holds what the execution has set since its clear() and nothing
\* else: no other writer has touched it
OnlyOwnWrites(c, run) ==
    /\ run.pc = "populate"
    /\ c = EntriesOf(run.fresh, Len(run.fresh) - Len(run.items))

\* the execution returns from the populate loop, over a store that holds what
\* it fetched
RefreshEnds(p) ==
    /\ OnlyOwnWrites(cache, runs[p])
    /\ runs'[p].pc = "idle"
    /\ runs[p].fresh = DbGetAllItems(rows)

ActiveRecords(r) == {r[i] : i \in {j \in DOMAIN r : r[j].is_active}}

\* C25 (as stated): after a refresh that succeeded with no concurrent cache
\* write, the cache holds exactly one entry 'portfolio_data:<key>' for each
\* record active in the snapshot, holding that record's value, and no other
\* entry.
C25_CacheMirrorsValues ==
    [][\A p \in Procs :
          RefreshEnds(p) =>
              /\ Len(cache') = Cardinality(ActiveRecords(rows))
              /\ Elems(cache') =
                     {[key |-> CacheKey(x.key), value |-> x.value] :
                          x \in ActiveRecords(rows)}
      ]_vars

\* C25 (amended): the same, with each entry holding the record's value extended
\* with the field _dbType set to the record's type.  The steps of the refresh
\* that lead there: the clear() empties the cache, each round of the loop adds
\* the entry of the next fetched item, and the return leaves the entries of all
\* the fetched items and nothing else.
C25_CacheMirrorsTypedValues ==
    [][\A p \in Procs :
          /\ RefreshEnds(p) =>
                 /\ Len(cache') = Cardinality(ActiveRecords(rows))
                 /\ Elems(cache') =
                        {[key |-> CacheKey(x.key),
                          value |-> Merge(x.value, "_dbType" :> x.type)] :
                             x \in ActiveRecords(rows)}
          /\ (runs[p].pc = "fetched" /\ runs'[p].pc = "populate") =>
                 /\ cache' = <<>>
                 /\ OnlyOwnWrites(cache', runs'[p])
          /\ (OnlyOwnWrites(cache, runs[p]) /\ runs'[p] # runs[p]) =>
                 IF runs'[p].pc = "idle"
                 THEN /\ cache' = EntriesOf(runs[p].fresh, Len(runs[p].fresh))
                      /\ result' = "refreshed"
                 ELSE OnlyOwnWrites(cache', runs'[p])
      ]_vars

\* a refresh has returned; the cache holds the entry of the one active record
\* and none for the key that was deactivated
C25_Witness ==
    /\ result = "refreshed"
    /\ InFlight(runs) = {}
    /\ Len(cache) = 1
    /\ Cardinality(ActiveRecords(rows)) = 1
    /\ \E i \in DOMAIN rows :
           /\ ~rows[i].is_active
           /\ \A j \in DOMAIN cache : cache[j].key # CacheKey(rows[i].key)
    /\ \A x \in ActiveRecords(rows) :
           cache[1] = [key |-> CacheKey(x.key),
                       value |-> Merge(x.value, "_dbType" :> x.type)]

C27_StopSuppressesTimer ==
    [][/\ Stop => (runs' = runs /\ refreshTimer' = NoTimer)
       /\ \A p \in Procs :
              (runs[p].pc # "idle" /\ runs'[p].pc = "idle" /\ ~isRefreshing) =>
                  refreshTimer'.live = 0
      ]_vars

ShapedValues(r, t) ==
    {Merge(x.value, "_dbType" :> x.type) : x \in {y \in ActiveRecords(r) : y.type = t}}

\* the place of a skill in the order: proficiency descending with null or
\* missing last, then sort_order ascending, then name ascending
SkillRank(x) ==
    <<IF Has(x, "proficiency") /\ x.proficiency # NullProficiency
      THEN 0 - x.proficiency ELSE 1,
      x.sort_order, NameRank(x.name)>>

RankLeq(u, v) ==
    \/ u[1] < v[1]
    \/ u[1] = v[1] /\ u[2] < v[2]
    \/ u[1] = v[1] /\ u[2] = v[2] /\ u[3] <= v[3]

\* C29: for every bag of records, the skills list of the shaped result holds
\* exactly the skills with is_featured = true, ordered by proficiency
\* descending with null (or missing) proficiency last, then sort_order
\* ascending, then name ascending.
C29_FeaturedSkillsSorted ==
    served.status = "ok" =>
        LET out == served.data.skills
        IN  /\ Elems(out) = {x \in ShapedValues(rows, "skill") : x.is_featured}
            /\ Len(out) = Cardinality(Elems(out))
            /\ \A i, j \in DOMAIN out :
                   i < j => RankLeq(SkillRank(out[i]), SkillRank(out[j]))

\* the ids of the parents a child can appear under
ParentIds(r, t) == {x.id : x \in ShapedValues(r, t)}

\* C30: readers tolerate orphans.  For every bag of records the shaped result
\* lists each experience and each published project of the bag once; under a
\* parent appear exactly the achievements / technologies / images whose
\* foreign key equals the parent's id, and a child whose parent is absent from
\* the bag (or is a project that is not published) appears nowhere.
C30_OrphansAppearNowhere ==
    served.status = "ok" =>
        LET exps == served.data.experiences
            projs == served.data.projects
            published == {x \in ShapedValues(rows, "project") : x.status = "published"}
        IN  /\ {e.id : e \in Elems(exps)} = ParentIds(rows, "experience")
            /\ Len(exps) = Cardinality(ParentIds(rows, "experience"))
            /\ \A i \in DOMAIN exps :
                   /\ Elems(exps[i].achievements) =
                          {a \in ShapedValues(rows, "achievement") :
                               a.experience_id = exps[i].id}
                   /\ Len(exps[i].achievements) = Cardinality(Elems(exps[i].achievements))
            /\ {p.id : p \in Elems(projs)} = {x.id : x \in published}
            /\ Len(projs) = Cardinality(published)
            /\ \A i \in DOMAIN projs :
                   /\ Elems(projs[i].technologies) =
                          {t.technology : t \in
                               {u \in ShapedValues(rows, "project_tech") :
                                    u.project_id = projs[i].id}}
                   /\ Elems(projs[i].images) =
                          {im \in ShapedValues(rows, "project_image") :
                               im.project_id = projs[i].id}
            /\ \A a \in ShapedValues(rows, "achievement") :
                   a.experience_id \notin ParentIds(rows, "experience") =>
                       \A i \in DOMAIN exps : a \notin Elems(exps[i].achievements)
            /\ \A t \in ShapedValues(rows, "project_tech") :
                   t.project_id \notin {x.id : x \in published} =>
                       \A i \in DOMAIN projs :
                           t.technology \notin Elems(projs[i].technologies)
            /\ \A im \in ShapedValues(rows, "project_image") :
                   im.project_id \notin {x.id : x \in published} =>
                       \A i \in DOMAIN projs : im \notin Elems(projs[i].images)

\* a table with an experience, an achievement of it and an achievement of an
\* experience that is not in the table has been shaped: the experience
\* carries the one achievement
C30_Witness ==
    /\ served.status = "ok"
    /\ Len(served.data.experiences) = 1
    /\ Len(served.data.experiences[1].achievements) = 1
    /\ served.data.experiences[1].achievements[1].experience_id = 1
    /\ \E a \in ShapedValues(rows, "achievement") :
           a.experience_id \notin ParentIds(rows, "experience")

\* C31: a call of refreshCacheWithRetry made by a timer tick or by
\* forceRefresh() while isRefreshing is set returns at once: no execution is
\* started (no health probe, no store read, nothing left to run later), and
\* the cache, the flag, the timer and the store are as before.
C31_ReentrantCallIsNoOp ==
    [][(isRefreshing /\ (Tick \/ ForceRefresh)) =>
          UNCHANGED <<rows, result, cache, isRefreshing, refreshTimer, runs>>
      ]_vars

\* a refresh has cleared the cache and not yet set the items it fetched, the
\* flag is set and the interval is live: the state in which a tick is skipped
C31_Witness ==
    /\ isRefreshing
    /\ refreshTimer.live = 1
    /\ Cardinality(InFlight(runs)) = 1
    /\ \E p \in Procs : runs[p].pc = "populate" /\ runs[p].items # <<>> /\ cache = <<>>

\* C32: every execution of refreshCacheWithRetry that has set the flag
\* eventually returns, and the state it returns in has isRefreshing = false;
\* the return is one of the three normal ones (unhealthy store, cache
\* refreshed, all attempts failed), never a thrown error.
C32_RefreshReturns ==
    /\ \A p \in Procs : (runs[p].pc # "idle") ~> (runs[p].pc = "idle" /\ ~isRefreshing)
    /\ [][\A p \in Procs :
             (runs[p].pc # "idle" /\ runs'[p].pc = "idle") =>
                 /\ ~isRefreshing'
                 /\ result' \in {"unhealthy", "refreshed", "all_attempts_failed"}
         ]_vars

\* a refresh whose three fetch attempts failed has returned to an idle
\* manager with the interval armed and nothing cached
C32_Witness ==
    /\ result = "all_attempts_failed"
    /\ ~isRefreshing
    /\ InFlight(runs) = {}
    /\ refreshTimer.live = 1
    /\ cache = <<>>

\* C33: getPortfolioData() leaves the cache as it found it on every path
\* (caching disabled, cache hit, empty cache and store read, error and store
\* read in the catch block); an empty cache becomes non-empty only by a step
\* of a refresh that is populating or by a point write (updateCacheItem).
C33_ReadLeavesCache ==
    [][/\ \A cacheOk, dbOk, retryOk \in BOOLEAN :
              (served'.status # "none" /\ GetCachedPortfolioData(cacheOk, dbOk, retryOk)) =>
                  cache' = cache
       /\ (cache = <<>> /\ cache' # <<>>) =>
              \/ \E p \in Procs : runs[p].pc = "populate" /\ runs'[p] # runs[p]
              \/ \E d \in RouteSkillDocs : UpdateCacheItemCall(SkillKey(d.id), d)
      ]_vars

\* caching is on, the cache is empty, and the response just served was read
\* from a store that holds a profile and a skill: the cache was not filled
C33_Witness ==
    /\ enabled
    /\ cache = <<>>
    /\ InFlight(runs) = {}
    /\ served = OkResponse(FetchAndProcessFromDB(rows))
    /\ served.data.profile # Null
    /\ served.data.skills # <<>>

\* the statements issued so far on the clients of the transaction() call
Issued(stmt) == \E i \in DOMAIN db.log : db.log[i] = stmt

\* C34: query() and transaction() execute the statement, or the callback, at
\* most three times in total (retry count 0..2); a call that ends with an
\* error surfaces the last error raised; an error that is not
\* connection-class is not retried: no execution follows it and it is the
\* error the call ends with, in transaction() with ROLLBACK issued on the
\* client and no COMMIT.
C34_HelpersRetryBounded ==
    /\ db.execs <= maxRetriesDb + 1
    /\ Len(db.stack) <= maxRetriesDb + 1
    /\ db.out.status = "error" => db.out.err = db.last
    /\ (db.out.status # "pending" /\ db.otherAt # -1) =>
           /\ db.execs = db.otherAt
           /\ db.out = Outcome("other")
           /\ db.fn = "transaction" =>
                  /\ ~Issued("COMMIT")
                  /\ db.releases # <<>> => Issued("ROLLBACK")

\* C40: in transaction() every client handed out by pool.connect() has
\* release() called on it at most once, and exactly once when the call has
\* ended; a call in which a COMMIT went through, in the first invocation or
\* in a retry, ends with the result, not with an error.
C40_ReleasedOnceAndCommitReturned ==
    db.fn = "transaction" =>
        /\ \A c \in DOMAIN db.releases : db.releases[c] <= 1
        /\ db.out.status # "pending" =>
               /\ \A c \in DOMAIN db.releases : db.releases[c] = 1
               /\ Issued("COMMIT") => db.out.status = "ok"

CacheEntryAgrees(c, r, k) ==
    LET items == DbGetAllItems(r) IN
    IF ObjHas(items, k)
    THEN \E i \in DOMAIN c :
             /\ c[i].key = CacheKey(k)
             /\ \E j \in DOMAIN items : items[j].key = k /\ items[j].value = c[i].value
    ELSE ~ObjHas(c, CacheKey(k))

\* C36: with caching enabled, when a project route has committed its write
\* and its invalidateCache() call has returned, the cache entry of the
\* project written equals the store's active value; stated for the calls that
\* find a refresh in flight, which return within the step of the write.
C36_InvalidateAfterWriteIsFresh ==
    [][(enabled /\ isRefreshing /\ rows' # rows /\ result' = "ok") =>
          \A id \in ProjIds :
              ActiveRowsOf(rows', ProjectKey(id)) # ActiveRowsOf(rows, ProjectKey(id)) =>
                  CacheEntryAgrees(cache', rows', ProjectKey(id))
      ]_vars

\* C37: after a successful refresh, with no write since, the cache is
\* non-empty exactly when the store has active records, and what
\* getPortfolioData() shapes from the cache entries is what
\* fetchAndProcessFromDB() shapes from the store: the same profile, skills,
\* experiences and projects, in the same order; so is every response served.
C37_CacheRefinesStore ==
    /\ result = "refreshed" =>
           /\ cache # <<>> <=> DbGetAllItems(rows) # <<>>
           /\ ProcessPortfolioItems(CacheGetAllItems(cache, CachePrefix)) =
                  FetchAndProcessFromDB(rows)
    /\ served.status = "ok" => served.data = FetchAndProcessFromDB(rows)

\* a response was served from a cache of three entries left by a refresh: a
\* published project with its technology, and a featured skill
C37_Witness ==
    /\ result = "refreshed"
    /\ Len(cache) = 3
    /\ served = OkResponse(ProcessPortfolioItems(CacheGetAllItems(cache, CachePrefix)))
    /\ Len(served.data.projects) = 1
    /\ Len(served.data.projects[1].technologies) = 1
    /\ Len(served.data.skills) = 1

\* C38: every record of type skill, experience, achievement, project or
\* project_image has the key '<type>:<id>' of the id its value carries,
\* whichever operation wrote it, so that the record of an achievement is
\* found under the key built from its value.id.
C38_KeyMatchesId ==
    \A i \in DOMAIN rows :
        rows[i].type \in {"skill", "experience", "achievement", "project", "project_image"} =>
            /\ "id" \in DOMAIN rows[i].value
            /\ rows[i].key = <<rows[i].type, rows[i].value.id>>
            /\ (rows[i].type = "achievement" /\ rows[i].is_active) =>
                   GetPortfolioItem(rows, AchievementKey(rows[i].value.id)) = rows[i].value

\* C39: when updateSkill and updateSkillsOrder of the same skill overlap and
\* both commit, the active value holds the patch of the one and the sort_order
\* of the other: a commit never puts back a field that the other call has
\* committed since this call read the document
C39_NoLostUpdate ==
    [][\A t \in Tx :
          (/\ txs[t].pc = "commit"
           /\ txs'[t].pc = "idle"
           /\ GetPortfolioItem(rows, SkillKey(1)) # Null
           /\ GetPortfolioItem(rows', SkillKey(1)) # Null)
          => LET before == GetPortfolioItem(rows, SkillKey(1))
                 after == GetPortfolioItem(rows', SkillKey(1))
             IN  IF txs[t].op = "set"
                 THEN after.sort_order = before.sort_order
                 ELSE after.name = before.name]_vars

====
